---------------------------- MODULE Spec2Model ----------------------------
(***************************************************************************)
(* The GraphQL gateway of microservices-lab (src/graphql-gateway/app.py)   *)
(* together with the two backends it calls, the order service              *)
(* (src/order-service/app.py) and the catalog service                      *)
(* (src/catalog-service/app.py).                                           *)
(*                                                                         *)
(* One request (a query or a mutation document) is executed at a time.     *)
(* Every root field is a task; a task issues the HTTP call of its          *)
(* resolver, the backend handler answers it (or the transport fails, or    *)
(* the client-side timeout fires), the resolver builds the entity, and the *)
(* nested OrderItem.product resolvers run for the items of the orders the  *)
(* field returned when the document selected them.  Every call the gateway *)
(* issues is counted in the bag "calls".                                   *)
(***************************************************************************)
EXTENDS Integers, Sequences, FiniteSets, Bags, TLC

VARIABLES
    orders_db,   \* order service: the stored orders, in insertion order
    uuid_ctr,    \* order service: number of order ids generated so far
    n_updates,   \* number of PUT /orders/{id} handled (bounded by MaxUpdates)
    items_db,    \* catalog service: product id -> stored item
    item_ctr,    \* catalog service: number of item ids generated so far
    origin,      \* ghost, parallel to orders_db: the root field of the request
                 \* in execution whose POST stored the order (0: none of them)
    late,        \* POST requests whose caller timed out before the order
                 \* service handled them; they are still on their way
    phase,       \* "idle" | "exec" | "done" | "rejected":
                 \* Parse/Validate -> Execute -> Assemble, or refused
    doc,         \* the document in execution: [kind, fields]
    task,        \* root field index -> the state of its resolution
    completed,   \* root field indexes in the order their resolution finished
    calls,       \* bag of the backend calls the gateway issued for this request
    errors,      \* the error entries collected by the execution engine
    response     \* the response emitted for the request

vars == <<orders_db, uuid_ctr, n_updates, items_db, item_ctr, origin, late, phase, doc,
          task, completed, calls, errors, response>>

backend == <<orders_db, uuid_ctr, n_updates, items_db, item_ctr, origin, late>>

(* get_current_time() of the order service and of the catalog service:     *)
(* each service stamps a write with the number of writes it has counted,   *)
(* so the stamps of one service never decrease.                            *)
get_current_time == uuid_ctr + n_updates

catalog_get_current_time == item_ctr

-----------------------------------------------------------------------------
(* Bounds of the model *)

MaxFields == 2     \* root fields of one document
MaxItems == 2      \* items of one order
MaxOrders == 2     \* orders the order service ever stores
MaxUpdates == 1    \* updates of stored orders by other clients
MaxProducts == 2   \* item ids the catalog service ever generates

(* Constants of the program *)

ReadTimeout == 5
WriteTimeout == 10
UserOrdersLimit == 50
UserFieldLimit == 100
MinLimit == 1
MaxLimit == 200
MinItems == 1
ProductsLimit == 20
MinPage == 1
DefaultPage == 1
DefaultPageSize == 20
MinPageSize == 1
MaxPageSize == 100

-----------------------------------------------------------------------------
(* Values *)

None == "None"
Null == [tag |-> "null"]
Unresolved == [tag |-> "unresolved"]
NoBody == [detail |-> "none"]

Users == {"u1", "u2"}
ProductIds == {"p1", "p2"}

Min(a, b) == IF a < b THEN a ELSE b

Get(d, k, default) == IF k \in DOMAIN d THEN d[k] ELSE default

(* The items a client submits: n items, alternately of product p1 and p2. *)
itemA == [product_id |-> "p1", quantity |-> 2, price |-> 5, name |-> "Alpha"]
itemB == [product_id |-> "p2", quantity |-> 1, price |-> 3, name |-> "Beta"]
ItemList(n) == [i \in 1..n |-> IF i % 2 = 1 THEN itemA ELSE itemB]

Address == [street |-> "Main 1", city |-> "Riga", country |-> "LV"]

-----------------------------------------------------------------------------
(* Order service *)

OrderStatus == {"pending", "processing", "shipped", "delivered", "cancelled", "refunded"}
PaymentStatus == {"pending", "paid", "failed", "refunded"}

(* Mutant: the total adds the unit prices and forgets the quantities. *)
RECURSIVE calculate_total_prices(_)
calculate_total_prices(items) ==
    IF items = <<>> THEN 0
    ELSE Head(items).price + calculate_total_prices(Tail(items))

RECURSIVE calculate_total(_)
calculate_total(items) ==
    IF items = <<>> THEN 0
    ELSE Head(items).price * Head(items).quantity + calculate_total(Tail(items))

generate_order_id(ctr) == ctr + 1

(* OrderCreate / OrderItem validation of the request body (pydantic). *)
OrderCreateValid(body) ==
    /\ Len(body.items) >= MinItems
    /\ \A i \in 1..Len(body.items) :
          body.items[i].quantity > 0 /\ body.items[i].price > 0

(* Mutant: a new order is stored as already paid. *)
create_order_paid(db, ctr, body, now) ==
    IF ~OrderCreateValid(body)
    THEN [status |-> 422, body |-> NoBody, db |-> db, ctr |-> ctr]
    ELSE LET new_order ==
                 [id |-> generate_order_id(ctr),
                  user_id |-> body.user_id,
                  items |-> body.items,
                  total_amount |-> calculate_total(body.items),
                  status |-> "pending",
                  payment_status |-> "paid",
                  shipping_address |-> body.shipping_address,
                  payment_method |-> body.payment_method,
                  tracking_number |-> None,
                  notes |-> None,
                  created_at |-> now,
                  updated_at |-> now]
         IN [status |-> 201, body |-> new_order,
             db |-> Append(db, new_order), ctr |-> ctr + 1]

(* POST /api/v1/orders: the response and the store after the handler. *)
create_order(db, ctr, body, now) ==
    IF ~OrderCreateValid(body)
    THEN [status |-> 422, body |-> NoBody, db |-> db, ctr |-> ctr]
    ELSE LET new_order ==
                 [id |-> generate_order_id(ctr),
                  user_id |-> body.user_id,
                  items |-> body.items,
                  total_amount |-> calculate_total(body.items),
                  status |-> "pending",
                  payment_status |-> "pending",
                  shipping_address |-> body.shipping_address,
                  payment_method |-> body.payment_method,
                  tracking_number |-> None,
                  notes |-> None,
                  created_at |-> now,
                  updated_at |-> now]
         IN [status |-> 201, body |-> new_order,
             db |-> Append(db, new_order), ctr |-> ctr + 1]

(* GET /api/v1/orders/{order_id} *)
get_order(db, order_id) ==
    LET hit == {i \in 1..Len(db) : db[i].id = order_id}
    IN IF hit = {} THEN [status |-> 404, body |-> NoBody]
       ELSE [status |-> 200, body |-> db[CHOOSE i \in hit : TRUE]]

(* Mutant: total counts the orders returned, after the limit. *)
get_user_orders_page_total(db, user_id, status, limit) ==
    IF limit < MinLimit \/ limit > MaxLimit \/ status \notin OrderStatus \cup {None}
    THEN [status |-> 422, body |-> NoBody]
    ELSE LET user_orders ==
                 SelectSeq(db, LAMBDA o : /\ o.user_id = user_id
                                          /\ status # None => o.status = status)
         IN [status |-> 200,
             body |-> [orders |-> SubSeq(user_orders, 1, Min(limit, Len(user_orders))),
                       total |-> Min(limit, Len(user_orders)),
                       user_id |-> user_id]]

(* GET /api/v1/orders/user/{user_id}?status&limit *)
get_user_orders(db, user_id, status, limit) ==
    IF limit < MinLimit \/ limit > MaxLimit \/ status \notin OrderStatus \cup {None}
    THEN [status |-> 422, body |-> NoBody]
    ELSE LET user_orders ==
                 SelectSeq(db, LAMBDA o : /\ o.user_id = user_id
                                          /\ status # None => o.status = status)
         IN [status |-> 200,
             body |-> [orders |-> SubSeq(user_orders, 1, Min(limit, Len(user_orders))),
                       total |-> Len(user_orders),
                       user_id |-> user_id]]

(* OrderUpdate validation of the request body (pydantic). *)
OrderUpdateValid(upd) ==
    /\ Get(upd, "status", None) \in OrderStatus \cup {None}
    /\ Get(upd, "payment_status", None) \in PaymentStatus \cup {None}

(* Mutant: a field that is set replaces the stored value, null included. *)
Patch_null(upd, field, old) ==
    IF field \in DOMAIN upd THEN upd[field] ELSE old

(* A field of the update body that is set and not null replaces the stored *)
(* value.                                                                   *)
Patch(upd, field, old) ==
    IF field \in DOMAIN upd /\ upd[field] # None THEN upd[field] ELSE old

(* PUT /api/v1/orders/{order_id}: only the supplied, non-null fields change. *)
update_order(db, order_id, upd, now) ==
    IF ~OrderUpdateValid(upd) THEN [status |-> 422, body |-> NoBody, db |-> db]
    ELSE IF ~\E i \in 1..Len(db) : db[i].id = order_id
    THEN [status |-> 404, body |-> NoBody, db |-> db]
    ELSE LET k == CHOOSE i \in 1..Len(db) : db[i].id = order_id
             order == [db[k] EXCEPT
                          !.status = Patch(upd, "status", @),
                          !.payment_status = Patch(upd, "payment_status", @),
                          !.tracking_number = Patch(upd, "tracking_number", @),
                          !.notes = Patch(upd, "notes", @),
                          !.updated_at = now]
         IN [status |-> 200, body |-> order, db |-> [db EXCEPT ![k] = order]]

(* DELETE /api/v1/orders/{order_id} *)
delete_order(db, order_id) ==
    IF \E i \in 1..Len(db) : db[i].id = order_id
    THEN [status |-> 200, db |-> SelectSeq(db, LAMBDA o : o.id # order_id)]
    ELSE [status |-> 404, db |-> db]

-----------------------------------------------------------------------------
(* Catalog service *)

Category == {"electronics", "books", "clothing", "food", "other"}

(* The ids generate_id gives, in the order it gives them. *)
IdSeq == <<"p1", "p2", "p3">>

generate_id(ctr) == IdSeq[ctr + 1]

catalogP1 == [id |-> "p1", name |-> "Alpha", description |-> None, price |-> 7,
              created_at |-> 0, updated_at |-> 0,
              category |-> "books", stock |-> 3, image_url |-> None]

(* ItemCreate / ItemUpdate validation of the request body (pydantic). *)
ItemCreateValid(item) ==
    /\ item.name # ""
    /\ item.price > 0
    /\ item.category \in Category
    /\ item.stock >= 0

(* An update holds the fields the client set (dict(exclude_unset=True)). *)
ItemUpdateValid(upd) ==
    /\ "name" \in DOMAIN upd => upd.name # ""
    /\ "price" \in DOMAIN upd => upd.price > 0

(* The stored items in insertion order (list(items_db.values())). *)
ItemValues(db) ==
    LET ids == SelectSeq(IdSeq, LAMBDA id : id \in DOMAIN db)
    IN [k \in 1..Len(ids) |-> db[ids[k]]]

(* Text: the characters of the names, descriptions and search texts in use, *)
(* str.lower() and the substring test `a in b`.                             *)
Chars(s) ==
    CASE s = "Alpha" -> <<"A", "l", "p", "h", "a">>
      [] s = "Beta" -> <<"B", "e", "t", "a">>
      [] s = "Gamma" -> <<"G", "a", "m", "m", "a">>
      [] s = "Free" -> <<"F", "r", "e", "e">>
      [] s = "meta" -> <<"m", "e", "t", "a">>
      [] s = "al" -> <<"a", "l">>
      [] s = "ETA" -> <<"E", "T", "A">>
      [] s = "zz" -> <<"z", "z">>
      [] s = "" -> <<>>

lower(cs) ==
    [k \in 1..Len(cs) |->
        CASE cs[k] = "A" -> "a" [] cs[k] = "B" -> "b" [] cs[k] = "E" -> "e"
          [] cs[k] = "F" -> "f" [] cs[k] = "G" -> "g" [] cs[k] = "T" -> "t"
          [] OTHER -> cs[k]]

Contains(a, b) ==
    \E k \in 0..(Len(b) - Len(a)) : SubSeq(b, k + 1, k + Len(a)) = a

(* Mutant: the first page starts after page_size items. *)
get_items_skip(db, params) ==
    LET page == Get(params, "page", DefaultPage)
        page_size == Get(params, "page_size", DefaultPageSize)
    IN
    IF \/ page < MinPage
       \/ page_size < MinPageSize \/ page_size > MaxPageSize
       \/ ("category" \in DOMAIN params /\ params.category \notin Category)
       \/ ("min_price" \in DOMAIN params /\ params.min_price < 0)
       \/ ("max_price" \in DOMAIN params /\ params.max_price < 0)
    THEN [status |-> 422, body |-> NoBody]
    ELSE LET filtered ==
                 SelectSeq(ItemValues(db), LAMBDA item :
                     /\ "category" \in DOMAIN params => item.category = params.category
                     /\ "min_price" \in DOMAIN params => item.price >= params.min_price
                     /\ "max_price" \in DOMAIN params => item.price <= params.max_price
                     /\ ("search" \in DOMAIN params /\ params.search # "") =>
                            \/ Contains(lower(Chars(params.search)), lower(Chars(item.name)))
                            \/ /\ item.description \notin {None, ""}
                               /\ Contains(lower(Chars(params.search)),
                                           lower(Chars(item.description))))
             total == Len(filtered)
             start == page * page_size
         IN [status |-> 200,
             body |-> [items |-> SubSeq(filtered, start + 1, Min(start + page_size, total)),
                       total |-> total,
                       page |-> page,
                       page_size |-> page_size,
                       total_pages |-> (total + page_size - 1) \div page_size]]

(* GET /api/v1/catalog/items?category&min_price&max_price&search&page&page_size: *)
(* params holds the query parameters the client sent.                       *)
get_items(db, params) ==
    LET page == Get(params, "page", DefaultPage)
        page_size == Get(params, "page_size", DefaultPageSize)
    IN
    IF \/ page < MinPage
       \/ page_size < MinPageSize \/ page_size > MaxPageSize
       \/ ("category" \in DOMAIN params /\ params.category \notin Category)
       \/ ("min_price" \in DOMAIN params /\ params.min_price < 0)
       \/ ("max_price" \in DOMAIN params /\ params.max_price < 0)
    THEN [status |-> 422, body |-> NoBody]
    ELSE LET filtered ==
                 SelectSeq(ItemValues(db), LAMBDA item :
                     /\ "category" \in DOMAIN params => item.category = params.category
                     /\ "min_price" \in DOMAIN params => item.price >= params.min_price
                     /\ "max_price" \in DOMAIN params => item.price <= params.max_price
                     /\ ("search" \in DOMAIN params /\ params.search # "") =>
                            \/ Contains(lower(Chars(params.search)), lower(Chars(item.name)))
                            \/ /\ item.description \notin {None, ""}
                               /\ Contains(lower(Chars(params.search)),
                                           lower(Chars(item.description))))
             total == Len(filtered)
             start == (page - 1) * page_size
         IN [status |-> 200,
             body |-> [items |-> SubSeq(filtered, start + 1, Min(start + page_size, total)),
                       total |-> total,
                       page |-> page,
                       page_size |-> page_size,
                       total_pages |-> (total + page_size - 1) \div page_size]]

(* POST /api/v1/catalog/items *)
create_item(db, ctr, item, now) ==
    IF ~ItemCreateValid(item)
    THEN [status |-> 422, body |-> NoBody, db |-> db, ctr |-> ctr]
    ELSE LET new_item ==
                 [id |-> generate_id(ctr),
                  name |-> item.name,
                  description |-> item.description,
                  price |-> item.price,
                  category |-> item.category,
                  stock |-> item.stock,
                  image_url |-> item.image_url,
                  created_at |-> now,
                  updated_at |-> now]
         IN [status |-> 201, body |-> new_item,
             db |-> (new_item.id :> new_item) @@ db, ctr |-> ctr + 1]

(* PUT /api/v1/catalog/items/{item_id}: only the supplied, non-null fields change. *)
update_item(db, item_id, upd, now) ==
    IF ~ItemUpdateValid(upd) THEN [status |-> 422, db |-> db]
    ELSE IF item_id \notin DOMAIN db THEN [status |-> 404, db |-> db]
    ELSE [status |-> 200,
          db |-> [db EXCEPT ![item_id] =
                     [@ EXCEPT !.name = IF "name" \in DOMAIN upd THEN upd.name ELSE @,
                               !.price = IF "price" \in DOMAIN upd THEN upd.price ELSE @,
                               !.updated_at = now]]]

(* DELETE /api/v1/catalog/items/{item_id} *)
delete_item(db, item_id) ==
    IF item_id \notin DOMAIN db THEN [status |-> 404, db |-> db]
    ELSE [status |-> 200, db |-> [id \in DOMAIN db \ {item_id} |-> db[id]]]

(* GET /api/v1/catalog/items/{item_id} *)
get_item(db, item_id) ==
    IF item_id \in DOMAIN db
    THEN [status |-> 200, body |-> db[item_id]]
    ELSE [status |-> 404, body |-> NoBody]

-----------------------------------------------------------------------------
(* Gateway: the HTTP calls of the resolvers *)

NoItem == <<0, 0>>

Call(svc, method, path, resolver, timeout, i, item) ==
    [svc |-> svc, method |-> method, path |-> path, resolver |-> resolver,
     timeout |-> timeout, field |-> i, item |-> item]

(* Mutant: Query.user fetches the profile from the identity service. *)
Query_user_calls_profile(f, i) ==
    <<Call("auth", "GET", <<"profile">>, "Query.user", ReadTimeout, i, NoItem)>>

(* Query.user builds a stub user; it opens an HTTP client and sends nothing. *)
Query_user_calls(f, i) == <<>>

Query_product_calls(f, i) ==
    <<Call("catalog", "GET", <<"items", f.pid>>, "Query.product", ReadTimeout, i, NoItem)>>

(* Query.products: page 1 of the catalog, limit items, the filters that are  *)
(* not None (f.pid holds the category argument, f.n the limit argument).    *)
(* A field carries min_price, max_price and search only when the document  *)
(* gives them.                                                               *)
ProductsFilters(f) ==
    (IF f.pid # None THEN ("category" :> f.pid) ELSE <<>>)
    @@ [k \in {"min_price", "max_price", "search"} \cap DOMAIN f |-> f[k]]

(* Mutant: the limit argument is not passed on as page_size. *)
ProductsParams_default(f) == ("page" :> 1) @@ ProductsFilters(f)

ProductsParams(f) == [page |-> 1, page_size |-> f.n] @@ ProductsFilters(f)

(* The query string httpx builds from params, in the order of the dict. *)
QueryString(params) ==
    LET keys == SelectSeq(<<"page", "page_size", "category", "min_price", "max_price",
                            "search">>, LAMBDA k : k \in DOMAIN params)
        pair(k) == <<k, IF k \in {"category", "search"} THEN params[k]
                        ELSE ToString(params[k])>>
    IN [j \in 1..(2 * Len(keys)) |-> pair(keys[(j + 1) \div 2])[2 - (j % 2)]]

Query_products_calls(f, i) ==
    <<Call("catalog", "GET", <<"items">> \o QueryString(ProductsParams(f)),
           "Query.products", ReadTimeout, i, NoItem)>>

(* Mutant: Query.order also marks the order it read as processing. *)
Query_order_calls_touch(f, i) ==
    <<Call("order", "GET", <<"orders", ToString(f.oid)>>, "Query.order", ReadTimeout, i, NoItem),
      Call("order", "PUT", <<"orders", ToString(f.oid)>>, "Query.order", ReadTimeout, i, NoItem)>>

(* Mutant: Query.order also fetches the product of the first item. *)
Query_order_calls_eager(f, i) ==
    <<Call("order", "GET", <<"orders", ToString(f.oid)>>, "Query.order", ReadTimeout, i, NoItem),
      Call("catalog", "GET", <<"items", "p1">>, "Query.order", ReadTimeout, i, <<1, 1>>)>>

Query_order_calls(f, i) ==
    <<Call("order", "GET", <<"orders", ToString(f.oid)>>, "Query.order", ReadTimeout, i, NoItem)>>

Query_user_orders_calls(f, i) ==
    <<Call("order", "GET", <<"orders", "user", f.uid, ToString(UserOrdersLimit)>>,
           "Query.user_orders", ReadTimeout, i, NoItem)>>

User_orders_calls(f, i) ==
    <<Call("order", "GET", <<"orders", "user", f.uid, ToString(UserFieldLimit)>>,
           "User.orders", ReadTimeout, i, NoItem)>>

(* Mutant: Mutation.create_order sends its POST a second time. *)
Mutation_create_order_calls_retry(f, i) ==
    <<Call("order", "POST", <<"orders">>, "Mutation.create_order", WriteTimeout, i, NoItem),
      Call("order", "POST", <<"orders">>, "Mutation.create_order", WriteTimeout, i, NoItem)>>

Mutation_create_order_calls(f, i) ==
    <<Call("order", "POST", <<"orders">>, "Mutation.create_order", WriteTimeout, i, NoItem)>>

(* Mutant: one catalog call per order, for its first item, serves them all. *)
OrderItem_product_calls_batched(item, i, pos) ==
    IF pos[2] = 1
    THEN <<Call("catalog", "GET", <<"items", item.product_id>>, "OrderItem.product",
                ReadTimeout, i, pos)>>
    ELSE <<>>

OrderItem_product_calls(item, i, pos) ==
    <<Call("catalog", "GET", <<"items", item.product_id>>, "OrderItem.product",
           ReadTimeout, i, pos)>>

(* The JSON body Mutation.create_order posts. *)
create_order_body(f) ==
    [user_id |-> f.uid, items |-> ItemList(f.n),
     shipping_address |-> Address, payment_method |-> "card"]

-----------------------------------------------------------------------------
(* Gateway: building the entities from the backend payloads *)

ProductKeys == {"id", "name", "price", "category", "created_at", "updated_at"}
ItemKeys == {"product_id", "quantity", "price", "name"}
OrderKeys == {"id", "user_id", "items", "total_amount", "status", "payment_status",
              "shipping_address", "payment_method", "created_at", "updated_at"}

(* Mutant: the stock of the catalog item is dropped. *)
BuildProduct_nostock(data) ==
    [tag |-> "Product",
     id |-> data.id,
     name |-> data.name,
     description |-> Get(data, "description", None),
     price |-> data.price,
     category |-> data.category,
     stock |-> 0,
     image_url |-> Get(data, "image_url", None),
     created_at |-> data.created_at,
     updated_at |-> data.updated_at]

BuildProduct(data) ==
    [tag |-> "Product",
     id |-> data.id,
     name |-> data.name,
     description |-> Get(data, "description", None),
     price |-> data.price,
     category |-> data.category,
     stock |-> Get(data, "stock", 0),
     image_url |-> Get(data, "image_url", None),
     created_at |-> data.created_at,
     updated_at |-> data.updated_at]

(* Mutant: price and name of an item of product p1 are those of the catalog *)
(* record instead of those the order holds.                                 *)
BuildOrderItem_catalog(item) ==
    [product_id |-> item.product_id,
     quantity |-> item.quantity,
     price |-> IF item.product_id = "p1" THEN catalogP1.price ELSE item.price,
     name |-> IF item.product_id = "p1" THEN catalogP1.name ELSE item.name,
     product |-> Unresolved]

BuildOrderItem(item) ==
    [product_id |-> item.product_id,
     quantity |-> item.quantity,
     price |-> item.price,
     name |-> item.name,
     product |-> Unresolved]

(* Mutant: the items of an order are collected last first. *)
BuildOrder_reversed(order_data) ==
    [tag |-> "Order",
     id |-> order_data.id,
     user_id |-> order_data.user_id,
     items |-> [k \in 1..Len(order_data.items) |->
                   BuildOrderItem(order_data.items[Len(order_data.items) + 1 - k])],
     total_amount |-> order_data.total_amount,
     status |-> order_data.status,
     payment_status |-> order_data.payment_status,
     shipping_address |-> order_data.shipping_address,
     payment_method |-> order_data.payment_method,
     tracking_number |-> Get(order_data, "tracking_number", None),
     notes |-> Get(order_data, "notes", None),
     created_at |-> order_data.created_at,
     updated_at |-> order_data.updated_at]

(* Mutant: status and payment_status are taken from each other's key. *)
BuildOrder_swapped(order_data) ==
    [tag |-> "Order",
     id |-> order_data.id,
     user_id |-> order_data.user_id,
     items |-> [k \in 1..Len(order_data.items) |-> BuildOrderItem(order_data.items[k])],
     total_amount |-> order_data.total_amount,
     status |-> order_data.payment_status,
     payment_status |-> order_data.status,
     shipping_address |-> order_data.shipping_address,
     payment_method |-> order_data.payment_method,
     tracking_number |-> Get(order_data, "tracking_number", None),
     notes |-> Get(order_data, "notes", None),
     created_at |-> order_data.created_at,
     updated_at |-> order_data.updated_at]

BuildOrder(order_data) ==
    [tag |-> "Order",
     id |-> order_data.id,
     user_id |-> order_data.user_id,
     items |-> [k \in 1..Len(order_data.items) |-> BuildOrderItem(order_data.items[k])],
     total_amount |-> order_data.total_amount,
     status |-> order_data.status,
     payment_status |-> order_data.payment_status,
     shipping_address |-> order_data.shipping_address,
     payment_method |-> order_data.payment_method,
     tracking_number |-> Get(order_data, "tracking_number", None),
     notes |-> Get(order_data, "notes", None),
     created_at |-> order_data.created_at,
     updated_at |-> order_data.updated_at]

(* A lookup of a missing key raises KeyError inside the resolver's try block. *)
ProductOK(data) == ProductKeys \subseteq DOMAIN data
OrderOK(data) ==
    /\ OrderKeys \subseteq DOMAIN data
    /\ \A k \in 1..Len(data.items) : ItemKeys \subseteq DOMAIN data.items[k]

List(elems) == [tag |-> "list", elems |-> elems]

ProductList(elems) == [tag |-> "products", elems |-> elems]

BuildProducts(data) ==
    IF "items" \in DOMAIN data /\ \A k \in 1..Len(data.items) : ProductOK(data.items[k])
    THEN ProductList([k \in 1..Len(data.items) |-> BuildProduct(data.items[k])])
    ELSE ProductList(<<>>)

(* Mutant: a malformed order is skipped and the others are returned. *)
BuildOrders_partial(data) ==
    IF "orders" \in DOMAIN data
    THEN LET good == SelectSeq(data.orders, OrderOK)
         IN List([k \in 1..Len(good) |-> BuildOrder(good[k])])
    ELSE List(<<>>)

BuildOrders(data) ==
    IF "orders" \in DOMAIN data /\ \A k \in 1..Len(data.orders) : OrderOK(data.orders[k])
    THEN List([k \in 1..Len(data.orders) |-> BuildOrder(data.orders[k])])
    ELSE List(<<>>)

-----------------------------------------------------------------------------
(* Gateway: what each resolver returns for a backend response.  A response *)
(* is [exc, status, body]; exc is TRUE when client.get / client.post raised *)
(* (connection refused, timeout, malformed body).                           *)

Resp(r) == [exc |-> FALSE, status |-> r.status, body |-> r.body]
Raised == [exc |-> TRUE, status |-> 0, body |-> NoBody]
NoResp == [exc |-> FALSE, status |-> 0, body |-> NoBody]

Query_user(id) ==
    [tag |-> "User", id |-> id, username |-> <<"user_", id>>,
     email |-> <<"user", id, "@example.com">>, full_name |-> "Test User",
     orders |-> Unresolved]

Query_product(resp) ==
    IF ~resp.exc /\ resp.status = 200 /\ ProductOK(resp.body)
    THEN BuildProduct(resp.body) ELSE Null

Query_products(resp) ==
    IF ~resp.exc /\ resp.status = 200 THEN BuildProducts(resp.body) ELSE ProductList(<<>>)

(* Mutant: a failed lookup yields a placeholder product instead of None. *)
OrderItem_product_placeholder(resp) ==
    IF ~resp.exc /\ resp.status = 200 /\ ProductOK(resp.body)
    THEN BuildProduct(resp.body)
    ELSE BuildProduct([id |-> "", name |-> "", price |-> 0, category |-> "",
                       created_at |-> 0, updated_at |-> 0])

OrderItem_product(resp) ==
    IF ~resp.exc /\ resp.status = 200 /\ ProductOK(resp.body)
    THEN BuildProduct(resp.body) ELSE Null

Query_order(resp) ==
    IF ~resp.exc /\ resp.status = 200 /\ OrderOK(resp.body)
    THEN BuildOrder(resp.body) ELSE Null

(* Mutant: Query.user_orders reads the body whatever the status. *)
Query_user_orders_anystatus(resp) ==
    IF ~resp.exc THEN BuildOrders(resp.body) ELSE List(<<>>)

Query_user_orders(resp) ==
    IF ~resp.exc /\ resp.status = 200 THEN BuildOrders(resp.body) ELSE List(<<>>)

User_orders(resp) ==
    IF ~resp.exc /\ resp.status = 200 THEN BuildOrders(resp.body) ELSE List(<<>>)

Mutation_create_order(resp) ==
    IF ~resp.exc /\ resp.status = 201 /\ OrderOK(resp.body)
    THEN BuildOrder(resp.body) ELSE Null

(* Every resolver catches Exception and returns None or [], so nothing it   *)
(* meets reaches the execution engine as an error of the field.             *)
ResolverError(resolver, resp) == <<>>

-----------------------------------------------------------------------------
(* Documents *)

Field(name, uid, pid, oid, n, selOrders, selProduct) ==
    [name |-> name, uid |-> uid, pid |-> pid, oid |-> oid, n |-> n,
     selOrders |-> selOrders, selProduct |-> selProduct]

(* user { .. }, user { orders { .. } }, user { orders { items { product } } }, *)
(* product(id), products, order(id) with or without items.product, userOrders likewise. *)
QueryFields ==
    {Field("user", "u1", "", 0, 0, sel[1], sel[2]) :
        sel \in {<<FALSE, FALSE>>, <<TRUE, FALSE>>, <<TRUE, TRUE>>}}
    \cup {Field("product", "", pid, 0, 0, FALSE, FALSE) : pid \in ProductIds}
    \cup {Field("products", "", None, 0, ProductsLimit, FALSE, FALSE)}
    \cup {Field("order", "", "", 1, 0, FALSE, sp) : sp \in BOOLEAN}
    \cup {Field("userOrders", "u1", "", 0, 0, FALSE, sp) : sp \in BOOLEAN}

MutationFields ==
    {Field("createOrder", "u1", "", 0, n, FALSE, sp) : n \in {0, MaxItems}, sp \in BOOLEAN}

SeqsUpTo(S, n) == UNION {[1..k -> S] : k \in 1..n}

Documents ==
    {[kind |-> "query", fields |-> fs] : fs \in SeqsUpTo(QueryFields, MaxFields)}
    \cup {[kind |-> "mutation", fields |-> fs] : fs \in SeqsUpTo(MutationFields, MaxFields)}

(* Documents the gateway refuses: one that does not parse, and documents    *)
(* that name a root field the schema does not have.                         *)
UnknownField == Field("unknown", "", "", 0, 0, FALSE, FALSE)

Malformed == [kind |-> "malformed", fields |-> <<>>]

(* createOrder written with a paymentMethod argument (f.pid holds the tag   *)
(* the client wrote, "" when it wrote none).                                *)
TaggedCreateOrder == Field("createOrder", "u1", "cash", 0, MaxItems, FALSE, FALSE)

InvalidDocuments ==
    {Malformed}
    \cup {[kind |-> "query", fields |-> fs] :
            fs \in {s \in SeqsUpTo(QueryFields \cup {UnknownField}, MaxFields) :
                        \E k \in DOMAIN s : s[k] = UnknownField}}
    \cup {[kind |-> "mutation", fields |-> fs] :
            fs \in {s \in SeqsUpTo(MutationFields \cup {UnknownField}, MaxFields) :
                        \E k \in DOMAIN s : s[k] = UnknownField}}
    \cup {[kind |-> "mutation", fields |-> <<TaggedCreateOrder>>]}

NoDoc == [kind |-> "none", fields |-> <<>>]
NoResponse == [data |-> <<>>, errors |-> <<>>]

-----------------------------------------------------------------------------
(* Execution engine (strawberry.Schema): which resolvers it invokes, when, *)
(* and how it assembles the response.                                       *)

(* The root fields of the schema: the fields of Query and of Mutation. *)
KnownFields(kind) ==
    IF kind = "query" THEN {"user", "product", "products", "order", "userOrders"}
    ELSE IF kind = "mutation" THEN {"createOrder"}
    ELSE {}

(* The arguments the schema defines for a root field that the model lets   *)
(* vary, and the arguments a field of a document carries: create_order is   *)
(* declared with user_id, items and shipping_address.                       *)
KnownArgs(name) ==
    IF name = "createOrder" THEN {"userId", "items", "shippingAddress"} ELSE {}

ArgsOf(f) ==
    IF f.name = "createOrder"
    THEN {"userId", "items", "shippingAddress"}
            \cup (IF f.pid # "" THEN {"paymentMethod"} ELSE {})
    ELSE {}

Parse(d) == d.kind # "malformed"

(* Mutant: only the first root field is validated against the schema. *)
Validate_first(d) ==
    /\ d.fields[1].name \in KnownFields(d.kind)
    /\ ArgsOf(d.fields[1]) \subseteq KnownArgs(d.fields[1].name)

Validate(d) ==
    \A k \in DOMAIN d.fields :
        /\ d.fields[k].name \in KnownFields(d.kind)
        /\ ArgsOf(d.fields[k]) \subseteq KnownArgs(d.fields[k].name)

(* The response to a document that failed Parse or Validate. *)
RejectedResponse(d) ==
    [data |-> <<>>,
     errors |-> <<[path |-> <<>>,
                   message |-> IF Parse(d) THEN "validation" ELSE "syntax"]>>]

(* Root fields of a mutation run one after the other, those of a query      *)
(* independently of each other.                                             *)
CanStart(i) ==
    doc.kind = "mutation" => \A j \in 1..(i - 1) : task[j].pc = "done"

(* A resolver of a nested field is invoked only for a selected field. *)
WantsOrders(f) == f.selOrders
WantsProduct(f) == f.selProduct

(* Mutant: the response lists the root fields as they completed. *)
ResponseOrder_completion == completed

(* The data of the response: one entry per root field. *)
ResponseOrder == [i \in 1..Len(doc.fields) |-> i]

AssembleData ==
    [k \in 1..Len(ResponseOrder) |->
        [field |-> ResponseOrder[k],
         key |-> doc.fields[ResponseOrder[k]].name,
         value |-> task[ResponseOrder[k]].value]]

-----------------------------------------------------------------------------
(* The orders inside a resolved value, and the item whose product is next *)

OrdersOf(v) ==
    CASE v.tag = "Order" -> <<v>>
      [] v.tag = "list" -> v.elems
      [] v.tag = "User" -> IF v.orders.tag = "list" THEN v.orders.elems ELSE <<>>
      [] OTHER -> <<>>

PutOrders(v, os) ==
    CASE v.tag = "Order" -> os[1]
      [] v.tag = "list" -> List(os)
      [] v.tag = "User" -> [v EXCEPT !.orders = List(os)]
      [] OTHER -> v

UnresolvedItems(v) ==
    LET os == OrdersOf(v)
    IN {p \in (1..Len(os)) \X (1..MaxItems) :
           /\ p[2] <= Len(os[p[1]].items)
           /\ os[p[1]].items[p[2]].product = Unresolved}

NextItem(v) ==
    LET U == UnresolvedItems(v)
    IN CHOOSE p \in U : \A q \in U : p[1] < q[1] \/ (p[1] = q[1] /\ p[2] <= q[2])

AfterParent(f, v) ==
    IF WantsProduct(f) /\ UnresolvedItems(v) # {} THEN "nested" ELSE "done"

SeqToBag(s) == [e \in {s[k] : k \in 1..Len(s)} |-> Cardinality({k \in 1..Len(s) : s[k] = e})]

InitTask == [pc |-> "wait", value |-> Null, resp |-> NoResp, cause |-> "none"]

RootResolver(f) ==
    CASE f.name = "user" -> "User.orders"
      [] f.name = "product" -> "Query.product"
      [] f.name = "products" -> "Query.products"
      [] f.name = "order" -> "Query.order"
      [] f.name = "userOrders" -> "Query.user_orders"
      [] f.name = "createOrder" -> "Mutation.create_order"

RootCalls(f, i) ==
    CASE f.name = "user" ->
            Query_user_calls(f, i) \o (IF WantsOrders(f) THEN User_orders_calls(f, i) ELSE <<>>)
      [] f.name = "product" -> Query_product_calls(f, i)
      [] f.name = "products" -> Query_products_calls(f, i)
      [] f.name = "order" -> Query_order_calls(f, i)
      [] f.name = "userOrders" -> Query_user_orders_calls(f, i)
      [] f.name = "createOrder" -> Mutation_create_order_calls(f, i)

(* The backend's answer to the GET of root field f. *)
Backend(f) ==
    CASE f.name = "user" -> get_user_orders(orders_db, f.uid, None, UserFieldLimit)
      [] f.name = "product" -> get_item(items_db, f.pid)
      [] f.name = "products" -> get_items(items_db, ProductsParams(f))
      [] f.name = "order" -> get_order(orders_db, f.oid)
      [] f.name = "userOrders" -> get_user_orders(orders_db, f.uid, None, UserOrdersLimit)

(* Mutant: the resolvers keep the last entity they built in a module-level  *)
(* variable and return it while it is there.                                *)
Resolve_shared(f, old, resp) ==
    LET S == {j \in DOMAIN task : /\ task[j].pc = "done"
                                  /\ doc.fields[j].name = f.name
                                  /\ f.name \in {"product", "order"}}
    IN IF S # {}
       THEN task[CHOOSE j \in S : TRUE].value
       ELSE CASE f.name = "user" -> [old EXCEPT !.orders = User_orders(resp)]
              [] f.name = "product" -> Query_product(resp)
              [] f.name = "products" -> Query_products(resp)
              [] f.name = "order" -> Query_order(resp)
              [] f.name = "userOrders" -> Query_user_orders(resp)
              [] f.name = "createOrder" -> Mutation_create_order(resp)

(* The value of root field f once its call ended with resp. *)
Resolve(f, old, resp) ==
    CASE f.name = "user" -> [old EXCEPT !.orders = User_orders(resp)]
      [] f.name = "product" -> Query_product(resp)
      [] f.name = "products" -> Query_products(resp)
      [] f.name = "order" -> Query_order(resp)
      [] f.name = "userOrders" -> Query_user_orders(resp)
      [] f.name = "createOrder" -> Mutation_create_order(resp)

Succeeded(f, resp) ==
    ~resp.exc /\ resp.status = (IF f.name = "createOrder" THEN 201 ELSE 200)

-----------------------------------------------------------------------------
(* Initial state: empty stores (orders_db = {}), one product in the catalog, *)
(* no request.                                                               *)

Init ==
    /\ orders_db = <<>>
    /\ uuid_ctr = 0
    /\ n_updates = 0
    /\ items_db = ("p1" :> catalogP1)
    /\ item_ctr = 1
    /\ origin = <<>>
    /\ late = <<>>
    /\ phase = "idle"
    /\ doc = NoDoc
    /\ task = <<>>
    /\ completed = <<>>
    /\ calls = EmptyBag
    /\ errors = <<>>
    /\ response = NoResponse

(* A document arrives; it parses and is valid, so execution starts. *)
StartRequest(d) ==
    /\ phase = "idle"
    /\ Parse(d) /\ Validate(d)
    /\ d.kind = "mutation" => uuid_ctr + Len(late) + Len(d.fields) <= MaxOrders
    /\ phase' = "exec"
    /\ doc' = d
    /\ task' = [i \in 1..Len(d.fields) |-> InitTask]
    /\ UNCHANGED <<backend, completed, calls, errors, response>>

(* A document arrives that fails Parse or Validate: the response carries    *)
(* the error and no data, and nothing is executed.                          *)
RejectRequest(d) ==
    /\ phase = "idle"
    /\ ~(Parse(d) /\ Validate(d))
    /\ phase' = "rejected"
    /\ doc' = d
    /\ response' = RejectedResponse(d)
    /\ UNCHANGED <<backend, task, completed, calls, errors>>

(* The resolver of root field i returned v after its call ended with resp; *)
(* task[i].resp keeps the response the resolver saw.                        *)
End(i, v, cause, resolver, resp) ==
    LET pc2 == AfterParent(doc.fields[i], v)
    IN /\ task' = [task EXCEPT ![i] =
                      [pc |-> pc2, value |-> v, resp |-> resp, cause |-> cause]]
       /\ completed' = IF pc2 = "done" THEN Append(completed, i) ELSE completed
       /\ errors' = errors \o ResolverError(resolver, resp)

(* The engine invokes the resolver of root field i, which sends its call.   *)
(* Query.user returns at once; User.orders follows when it is selected.     *)
StartField(i) ==
    /\ phase = "exec"
    /\ i \in DOMAIN task
    /\ task[i].pc = "wait"
    /\ CanStart(i)
    /\ LET f == doc.fields[i]
           v == IF f.name = "user" THEN Query_user(f.uid) ELSE Null
       IN /\ calls' = calls (+) SeqToBag(RootCalls(f, i))
          /\ IF f.name = "user" /\ ~WantsOrders(f)
             THEN /\ task' = [task EXCEPT ![i] = [@ EXCEPT !.pc = "done", !.value = v]]
                  /\ completed' = Append(completed, i)
             ELSE /\ task' = [task EXCEPT ![i] = [@ EXCEPT !.pc = "called", !.value = v]]
                  /\ UNCHANGED completed
    /\ UNCHANGED <<backend, phase, doc, errors, response>>

(* The backend handles the GET of root field i and the resolver gets the    *)
(* response.                                                                *)
Answer(i) ==
    /\ phase = "exec"
    /\ i \in DOMAIN task
    /\ task[i].pc = "called"
    /\ doc.fields[i].name # "createOrder"
    /\ LET f == doc.fields[i]
           resp == Resp(Backend(f))
       IN End(i, Resolve(f, task[i].value, resp),
              IF Succeeded(f, resp) THEN "none" ELSE "rejected",
              RootResolver(f), resp)
    /\ UNCHANGED <<backend, phase, doc, calls, response>>

(* Mutant: the exception of the failed call leaves the resolver and aborts  *)
(* the execution; every root field ends without a value.                    *)
Fail_abort(i) ==
    /\ phase = "exec"
    /\ i \in DOMAIN task
    /\ task[i].pc = "called"
    /\ task' = [j \in DOMAIN task |->
                   IF j = i
                   THEN [pc |-> "done", value |-> Null, resp |-> Raised, cause |-> "unavailable"]
                   ELSE [task[j] EXCEPT !.pc = "done", !.value = Null]]
    /\ completed' = [k \in DOMAIN task |-> k]
    /\ UNCHANGED <<backend, phase, doc, calls, errors, response>>

(* The call of root field i raises before it reaches the backend            *)
(* (connection refused, or a GET that times out).                           *)
Fail(i) ==
    /\ phase = "exec"
    /\ i \in DOMAIN task
    /\ task[i].pc = "called"
    /\ LET f == doc.fields[i]
       IN End(i, Resolve(f, task[i].value, Raised), "unavailable", RootResolver(f), Raised)
    /\ UNCHANGED <<backend, phase, doc, calls, response>>

(* The order service handles the POST of root field i; its response is on   *)
(* its way back.                                                            *)
Serve(i) ==
    /\ phase = "exec"
    /\ i \in DOMAIN task
    /\ task[i].pc = "called"
    /\ doc.fields[i].name = "createOrder"
    /\ LET r == create_order(orders_db, uuid_ctr, create_order_body(doc.fields[i]), get_current_time)
       IN /\ orders_db' = r.db
          /\ uuid_ctr' = r.ctr
          /\ origin' = IF r.status = 201 THEN Append(origin, i) ELSE origin
          /\ task' = [task EXCEPT ![i] =
                         [@ EXCEPT !.pc = "served", !.resp = Resp(r)]]
    /\ UNCHANGED <<n_updates, items_db, item_ctr, late, phase, doc, completed, calls,
                   errors, response>>

(* Mutation.create_order gets the response of its POST. *)
Receive(i) ==
    /\ phase = "exec"
    /\ i \in DOMAIN task
    /\ task[i].pc = "served"
    /\ LET f == doc.fields[i]
           resp == task[i].resp
       IN End(i, Resolve(f, task[i].value, resp),
              IF Succeeded(f, resp) THEN "none" ELSE "rejected",
              RootResolver(f), resp)
    /\ UNCHANGED <<backend, phase, doc, calls, response>>

(* Mutant: client.post without a timeout waits for its response for ever. *)
Timeout_never(i) ==
    /\ FALSE
    /\ UNCHANGED vars

(* client.post times out after WriteTimeout seconds: before the order       *)
(* service handled the request, which stays on its way, or after it did,    *)
(* while the response is on its way.                                        *)
Timeout(i) ==
    /\ phase = "exec"
    /\ i \in DOMAIN task
    /\ task[i].pc \in {"called", "served"}
    /\ doc.fields[i].name = "createOrder"
    /\ LET f == doc.fields[i]
       IN /\ End(i, Resolve(f, task[i].value, Raised), "timeout", RootResolver(f), Raised)
          /\ late' = IF task[i].pc = "called"
                     THEN Append(late, [body |-> create_order_body(f), field |-> i])
                     ELSE late
    /\ UNCHANGED <<orders_db, uuid_ctr, n_updates, items_db, item_ctr, origin, phase, doc,
                   calls, response>>

(* The order service handles a POST whose caller has timed out. *)
ServeLate(k) ==
    /\ k \in DOMAIN late
    /\ LET r == create_order(orders_db, uuid_ctr, late[k].body, get_current_time)
       IN /\ orders_db' = r.db
          /\ uuid_ctr' = r.ctr
          /\ origin' = IF r.status = 201 THEN Append(origin, late[k].field) ELSE origin
    /\ late' = SubSeq(late, 1, k - 1) \o SubSeq(late, k + 1, Len(late))
    /\ UNCHANGED <<n_updates, items_db, item_ctr, phase, doc, task, completed, calls, errors,
                   response>>

(* OrderItem.product of the next item of root field i: one GET to the       *)
(* catalog, answered or failed.  The product resolvers of sibling items     *)
(* share no state; they are taken in item order.                            *)
ResolveItemProduct(i, failed) ==
    /\ phase = "exec"
    /\ i \in DOMAIN task
    /\ task[i].pc = "nested"
    /\ LET f == doc.fields[i]
           v == task[i].value
           p == NextItem(v)
           os == OrdersOf(v)
           item == os[p[1]].items[p[2]]
           resp == IF failed THEN Raised ELSE Resp(get_item(items_db, item.product_id))
           v2 == PutOrders(v, [os EXCEPT ![p[1]].items[p[2]].product = OrderItem_product(resp)])
       IN /\ calls' = calls (+) SeqToBag(OrderItem_product_calls(item, i, p))
          /\ task' = [task EXCEPT ![i] = [@ EXCEPT !.pc = AfterParent(f, v2), !.value = v2]]
          /\ completed' = IF AfterParent(f, v2) = "done" THEN Append(completed, i) ELSE completed
          /\ errors' = errors \o ResolverError("OrderItem.product", resp)
    /\ UNCHANGED <<backend, phase, doc, response>>

(* Every root field has resolved: the response is emitted. *)
Assemble ==
    /\ phase = "exec"
    /\ \A i \in DOMAIN task : task[i].pc = "done"
    /\ response' = [data |-> AssembleData, errors |-> errors]
    /\ phase' = "done"
    /\ UNCHANGED <<backend, doc, task, completed, calls, errors>>

(* The request is over; the gateway keeps nothing of it. *)
NextRequest ==
    /\ phase \in {"done", "rejected", "cancelled"}
    /\ phase' = "idle"
    /\ doc' = NoDoc
    /\ task' = <<>>
    /\ completed' = <<>>
    /\ calls' = EmptyBag
    /\ errors' = <<>>
    /\ response' = NoResponse
    /\ origin' = [k \in DOMAIN origin |-> 0]
    /\ late' = <<>>
    /\ UNCHANGED <<orders_db, uuid_ctr, n_updates, items_db, item_ctr>>

(* Another client updates a stored order (PUT /api/v1/orders/{order_id}). *)
Updates == {[status |-> "shipped", payment_status |-> None],
            [status |-> None, payment_status |-> "paid"]}

UpdateOrder(order_id, upd) ==
    /\ n_updates < MaxUpdates
    /\ \E k \in 1..Len(orders_db) : orders_db[k].id = order_id
    /\ orders_db' = update_order(orders_db, order_id, upd, get_current_time).db
    /\ n_updates' = n_updates + 1
    /\ UNCHANGED <<uuid_ctr, items_db, item_ctr, origin, late, phase, doc, task, completed,
                   calls, errors, response>>

Next ==
    \/ \E d \in Documents \cup InvalidDocuments : StartRequest(d)
    \/ \E d \in Documents \cup InvalidDocuments : RejectRequest(d)
    \/ \E i \in 1..MaxFields : StartField(i)
    \/ \E i \in 1..MaxFields : Answer(i)
    \/ \E i \in 1..MaxFields : Fail(i)
    \/ \E i \in 1..MaxFields : Serve(i)
    \/ \E i \in 1..MaxFields : Receive(i)
    \/ \E i \in 1..MaxFields : Timeout(i)
    \/ \E k \in 1..MaxOrders : ServeLate(k)
    \/ \E i \in 1..MaxFields, failed \in BOOLEAN : ResolveItemProduct(i, failed)
    \/ Assemble
    \/ NextRequest
    \/ \E order_id \in 1..MaxOrders, upd \in Updates : UpdateOrder(order_id, upd)

Spec == Init /\ [][Next]_vars

-----------------------------------------------------------------------------
(* The backends under the requests of their own clients, and the gateway    *)
(* reading them: orders are created, updated and deleted at the order       *)
(* service, items at the catalog service, and the gateway serves one-field  *)
(* queries that select items.product.  The catalog changes between two      *)
(* requests of the gateway.                                                 *)

ClientItems == {ItemList(n) : n \in 1..MaxItems} \cup {[k \in 1..MaxItems |-> itemA]}

OrderBodies ==
    {[user_id |-> "u1", items |-> its, shipping_address |-> Address,
      payment_method |-> "card"] : its \in ClientItems}
    \cup {[user_id |-> "u2", items |-> <<itemB>>, shipping_address |-> Address,
           payment_method |-> "cash"],
          [user_id |-> "u1", items |-> <<>>, shipping_address |-> Address,
           payment_method |-> "card"]}

NewItems ==
    {[name |-> "Beta", description |-> None, price |-> 4, category |-> "food",
      stock |-> 1, image_url |-> None],
     [name |-> "Free", description |-> None, price |-> 0, category |-> "food",
      stock |-> 1, image_url |-> None]}

ItemUpdates == {[name |-> "Gamma", price |-> 9], [price |-> 0]}

ServiceDocuments ==
    {[kind |-> "query", fields |-> <<f>>] :
        f \in {Field("order", "", "", oid, 0, FALSE, TRUE) : oid \in 1..MaxOrders}
              \cup {Field("userOrders", "u1", "", 0, 0, FALSE, TRUE)}
              \cup {Field("products", "", cat, 0, ProductsLimit, FALSE, FALSE) :
                       cat \in {None, "food"}}}

(* A client posts an order to the order service. *)
CreateOrder(body) ==
    /\ uuid_ctr < MaxOrders
    /\ LET r == create_order(orders_db, uuid_ctr, body, get_current_time)
       IN /\ orders_db' = r.db
          /\ uuid_ctr' = r.ctr
          /\ origin' = IF r.status = 201 THEN Append(origin, 0) ELSE origin
    /\ UNCHANGED <<n_updates, items_db, item_ctr, late, phase, doc, task, completed, calls,
                   errors, response>>

(* A client deletes an order (DELETE /api/v1/orders/{order_id}). *)
DeleteOrder(order_id) ==
    /\ \E k \in 1..Len(orders_db) : orders_db[k].id = order_id
    /\ orders_db' = delete_order(orders_db, order_id).db
    /\ origin' = [k \in 1..(Len(origin) - 1) |-> 0]
    /\ UNCHANGED <<uuid_ctr, n_updates, items_db, item_ctr, late, phase, doc, task, completed,
                   calls, errors, response>>

(* A client creates, updates or deletes an item of the catalog. *)
CreateItem(item) ==
    /\ phase = "idle"
    /\ item_ctr < MaxProducts
    /\ LET r == create_item(items_db, item_ctr, item, catalog_get_current_time)
       IN /\ items_db' = r.db
          /\ item_ctr' = r.ctr
    /\ UNCHANGED <<orders_db, uuid_ctr, n_updates, origin, late, phase, doc, task, completed,
                   calls, errors, response>>

UpdateItem(item_id, upd) ==
    /\ phase = "idle"
    /\ items_db' = update_item(items_db, item_id, upd, catalog_get_current_time).db
    /\ UNCHANGED <<orders_db, uuid_ctr, n_updates, item_ctr, origin, late, phase, doc, task,
                   completed, calls, errors, response>>

DeleteItem(item_id) ==
    /\ phase = "idle"
    /\ items_db' = delete_item(items_db, item_id).db
    /\ UNCHANGED <<orders_db, uuid_ctr, n_updates, item_ctr, origin, late, phase, doc, task,
                   completed, calls, errors, response>>

NextServices ==
    \/ \E body \in OrderBodies : CreateOrder(body)
    \/ \E order_id \in 1..MaxOrders, upd \in Updates : UpdateOrder(order_id, upd)
    \/ \E order_id \in 1..MaxOrders : DeleteOrder(order_id)
    \/ \E item \in NewItems : CreateItem(item)
    \/ \E item_id \in ProductIds, upd \in ItemUpdates : UpdateItem(item_id, upd)
    \/ \E item_id \in ProductIds : DeleteItem(item_id)
    \/ \E d \in ServiceDocuments : StartRequest(d)
    \/ StartField(1)
    \/ Answer(1)
    \/ Fail(1)
    \/ \E failed \in BOOLEAN : ResolveItemProduct(1, failed)
    \/ Assemble
    \/ NextRequest

SpecServices == Init /\ [][NextServices]_vars

-----------------------------------------------------------------------------
(* The resolvers as functions of the response of their call: one resolver   *)
(* is invoked, its call ends with a response drawn from Responses, and it   *)
(* returns.  doc names the resolver, task[1] holds the response and the     *)
(* value returned.                                                          *)

ResolverNames ==
    {"Query.product", "Query.products", "Query.order", "Query.user_orders",
     "User.orders", "OrderItem.product", "Mutation.create_order"}

Statuses == {200, 201, 400, 404, 422, 500, 503}

SampleOrder == create_order(<<>>, 0, create_order_body(
                   Field("createOrder", "u1", "", 0, MaxItems, FALSE, FALSE)), 1).body

(* The body the backend of the resolver sends with a success status. *)
SampleBody(name) ==
    CASE name \in {"Query.product", "OrderItem.product"} -> catalogP1
      [] name = "Query.products" ->
            get_items(("p1" :> catalogP1), [page |-> 1, page_size |-> ProductsLimit]).body
      [] name \in {"Query.order", "Mutation.create_order"} -> SampleOrder
      [] name \in {"Query.user_orders", "User.orders"} ->
            [orders |-> <<SampleOrder>>, total |-> 1, user_id |-> "u1"]

(* The record r without the keys K. *)
Drop(r, K) == [k \in DOMAIN r \ K |-> r[k]]

(* The keys the adapters read with .get(), and one key of each entity that  *)
(* they read with [].                                                       *)
OptionalProductKeys == {"description", "stock", "image_url"}
OptionalOrderKeys == {"tracking_number", "notes"}

catalogP2 == [catalogP1 EXCEPT !.id = "p2", !.name = "Beta", !.price = 4,
                               !.created_at = 1, !.updated_at = 1]

SampleOrder2 ==
    create_order(<<SampleOrder>>, 1,
                 [user_id |-> "u1", items |-> <<itemB>>, shipping_address |-> Address,
                  payment_method |-> "card"], 2).body

ProductBodies ==
    {catalogP1, Drop(catalogP1, OptionalProductKeys), Drop(catalogP1, {"price"}),
     Drop(catalogP1, {"updated_at"})}

OrderBodiesOf(order) ==
    {order, Drop(order, OptionalOrderKeys), Drop(order, {"total_amount"}),
     [order EXCEPT !.items[1] = Drop(@, {"name"})]}

(* Lists of entities: complete ones in either order, with optional keys     *)
(* missing, and with one malformed element in either position.              *)
ProductLists ==
    {<<>>, <<catalogP1>>, <<catalogP1, catalogP2>>, <<catalogP2, catalogP1>>,
     <<Drop(catalogP1, OptionalProductKeys), catalogP2>>,
     <<catalogP1, Drop(catalogP2, {"price"})>>,
     <<Drop(catalogP1, {"category"}), catalogP2>>}

OrderLists ==
    {<<>>, <<SampleOrder>>, <<SampleOrder, SampleOrder2>>, <<SampleOrder2, SampleOrder>>,
     <<Drop(SampleOrder, OptionalOrderKeys), SampleOrder2>>,
     <<SampleOrder, Drop(SampleOrder2, {"status"})>>,
     <<[SampleOrder EXCEPT !.items[2] = Drop(@, {"quantity"})], SampleOrder2>>}

(* The bodies a backend may send to the resolver. *)
Bodies(name) ==
    CASE name \in {"Query.product", "OrderItem.product"} -> ProductBodies
      [] name = "Query.products" ->
            {[SampleBody(name) EXCEPT !.items = its, !.total = Len(its)] :
                its \in ProductLists}
      [] name \in {"Query.order", "Mutation.create_order"} -> OrderBodiesOf(SampleOrder)
      [] name \in {"Query.user_orders", "User.orders"} ->
            {[orders |-> os, total |-> Len(os), user_id |-> "u1"] : os \in OrderLists}

(* A response with any status and any body, or no response: the call        *)
(* raised (connection refused, timeout), or reading the body raised.        *)
Responses(name) ==
    {[exc |-> FALSE, status |-> st, body |-> b] :
        st \in Statuses, b \in Bodies(name) \cup {NoBody}}
    \cup {Raised}
    \cup {[exc |-> TRUE, status |-> st, body |-> NoBody] : st \in {200, 201}}

Apply(name, resp) ==
    CASE name = "Query.product" -> Query_product(resp)
      [] name = "Query.products" -> Query_products(resp)
      [] name = "Query.order" -> Query_order(resp)
      [] name = "Query.user_orders" -> Query_user_orders(resp)
      [] name = "User.orders" -> User_orders(resp)
      [] name = "OrderItem.product" -> OrderItem_product(resp)
      [] name = "Mutation.create_order" -> Mutation_create_order(resp)

InitResolvers ==
    /\ orders_db = <<>>
    /\ uuid_ctr = 0
    /\ n_updates = 0
    /\ items_db = ("p1" :> catalogP1)
    /\ item_ctr = 1
    /\ origin = <<>>
    /\ late = <<>>
    /\ phase = "exec"
    /\ \E name \in ResolverNames :
          /\ doc = [kind |-> "resolver", fields |-> <<[name |-> name]>>]
          /\ \E resp \in Responses(name) :
                task = <<[pc |-> "called", value |-> Null, resp |-> resp, cause |-> "none"]>>
    /\ completed = <<>>
    /\ calls = EmptyBag
    /\ errors = <<>>
    /\ response = NoResponse

ResolverReturns ==
    /\ phase = "exec"
    /\ doc.kind = "resolver"
    /\ task[1].pc = "called"
    /\ task' = [task EXCEPT ![1].pc = "done",
                            ![1].value = Apply(doc.fields[1].name, task[1].resp)]
    /\ completed' = <<1>>
    /\ errors' = errors \o ResolverError(doc.fields[1].name, task[1].resp)
    /\ UNCHANGED <<backend, phase, doc, calls, response>>

NextResolvers == ResolverReturns

SpecResolvers == InitResolvers /\ [][NextResolvers]_vars

-----------------------------------------------------------------------------
(* Properties *)

RECURSIVE SumCalls(_)
SumCalls(S) ==
    IF S = {} THEN 0
    ELSE LET c == CHOOSE x \in S : TRUE IN calls[c] + SumCalls(S \ {c})

(* The number of backend calls issued on behalf of root field i. *)
FieldCalls(i) == SumCalls({c \in DOMAIN calls : c.field = i})

ScalarOnly(f) == ~f.selOrders /\ ~f.selProduct

ScalarQuery ==
    /\ doc.kind = "query"
    /\ \A i \in DOMAIN doc.fields : ScalarOnly(doc.fields[i])

HasOrders(i) == task[i].pc \in {"nested", "done"} /\ OrdersOf(task[i].value) # <<>>

(* C1, as claimed: a query that requests only scalar fields has issued      *)
(* exactly one backend call for each of its root fields (user, product,     *)
(* order, userOrders) when it ends.                                         *)
C1_OneCallPerEntity ==
    (phase = "done" /\ ScalarQuery) =>
        \A i \in DOMAIN doc.fields : FieldCalls(i) = 1

(* C1, amended: in a query that requests only scalar fields, a started root *)
(* field product, products, order or userOrders has issued exactly one      *)
(* call, a GET to its own backend (one GET for the whole list of products   *)
(* or userOrders), a root field user has issued none, and there is no other *)
(* call.                                                                    *)
C1_OneCallPerBackendField ==
    ScalarQuery =>
        /\ \A c \in DOMAIN calls : c.field \in DOMAIN task
        /\ \A i \in DOMAIN task :
              /\ FieldCalls(i) =
                    IF task[i].pc = "wait" \/ doc.fields[i].name = "user" THEN 0 ELSE 1
              /\ \A c \in DOMAIN calls :
                    c.field = i =>
                       /\ c.method = "GET"
                       /\ c.item = NoItem
                       /\ c.svc = IF doc.fields[i].name \in {"product", "products"}
                                 THEN "catalog" ELSE "order"

C1_Witness ==
    /\ phase = "done"
    /\ ScalarQuery
    /\ \E i, j \in DOMAIN task :
          /\ doc.fields[i].name = "userOrders"
          /\ Len(OrdersOf(task[i].value)) >= 2
          /\ doc.fields[j].name = "user"

(* C2: a root field order, userOrders, createOrder or user that did not     *)
(* select items.product has issued no catalog call, and a root field user   *)
(* that did not select orders has issued no call to the order service.      *)
C2_LazyNested ==
    \A i \in DOMAIN task :
        LET f == doc.fields[i]
        IN /\ (f.name \in {"order", "userOrders", "createOrder", "user"} /\ ~f.selProduct) =>
                 \A c \in DOMAIN calls : c.field = i => c.svc # "catalog"
           /\ (f.name = "user" /\ ~f.selOrders) =>
                 \A c \in DOMAIN calls : c.field = i => c.svc # "order"

C2_Witness ==
    /\ phase = "done"
    /\ \E i \in DOMAIN task :
          /\ doc.fields[i].name = "order"
          /\ ~doc.fields[i].selProduct
          /\ HasOrders(i)
          /\ Len(OrdersOf(task[i].value)[1].items) >= 2

(* The value root field i had when its own resolver returned, and the value *)
(* it has now with every nested product taken out again.                    *)
ParentValue(i) ==
    LET f == doc.fields[i]
    IN Resolve(f, IF f.name = "user" THEN Query_user(f.uid) ELSE Null, task[i].resp)

Strip(v) ==
    LET os == OrdersOf(v)
    IN PutOrders(v, [k \in 1..Len(os) |->
                        [os[k] EXCEPT !.items =
                            [m \in 1..Len(os[k].items) |->
                                [os[k].items[m] EXCEPT !.product = Unresolved]]]])

C3_State ==
    \A i \in DOMAIN task :
        HasOrders(i) =>
            /\ Strip(task[i].value) = ParentValue(i)
            /\ phase = "done" => response.data[i].value = task[i].value
            /\ \A k \in 1..Len(OrdersOf(task[i].value)) :
                  \A m \in 1..Len(OrdersOf(task[i].value)[k].items) :
                      LET it == OrdersOf(task[i].value)[k].items[m]
                      IN it.product # Unresolved =>
                            IF it.product_id \in DOMAIN items_db
                            THEN it.product \in {Null, BuildProduct(items_db[it.product_id])}
                            ELSE it.product = Null

C3_Step ==
    \A i \in DOMAIN task :
        ResolveItemProduct(i, TRUE) =>
            LET p == NextItem(task[i].value)
            IN OrdersOf(task'[i].value)[p[1]].items[p[2]].product = Null

(* C3: when the catalog lookup of an item's product fails (the call raises, *)
(* or the catalog answers 404), that item's product is null, the enclosing  *)
(* order and its items keep every other field the order resolver gave them  *)
(* and are part of the response, and a sibling item whose lookup succeeds   *)
(* carries the product the catalog holds.                                   *)
C3_FailedProductIsolated == []C3_State /\ [][C3_Step]_vars

C3_Witness ==
    /\ phase = "done"
    /\ \E i \in DOMAIN task :
          /\ HasOrders(i)
          /\ doc.fields[i].selProduct
          /\ \E k \in 1..Len(OrdersOf(task[i].value)) :
                LET its == OrdersOf(task[i].value)[k].items
                IN /\ Len(its) >= 2
                   /\ its[1].product = BuildProduct(items_db["p1"])
                   /\ its[2].product = Null
                   /\ response.data[i].value.tag # "null"

(* The failed lookups of the request: root fields whose call failed, and    *)
(* items whose product lookup gave null.                                    *)
FailedRoots == {i \in DOMAIN task : task[i].cause # "none"}

FailedItems ==
    {q \in (DOMAIN task) \X (1..MaxOrders) \X (1..MaxItems) :
        /\ q[2] <= Len(OrdersOf(task[q[1]].value))
        /\ q[3] <= Len(OrdersOf(task[q[1]].value)[q[2]].items)
        /\ OrdersOf(task[q[1]].value)[q[2]].items[q[3]].product = Null}

(* C4, as claimed: when the request ends, the errors of the response hold   *)
(* exactly one entry per failed backend lookup, and every root field whose  *)
(* call failed has an entry with the path of that field.                    *)
C4_ErrorEntryPerFailure ==
    phase = "done" =>
        /\ Len(response.errors) = Cardinality(FailedRoots) + Cardinality(FailedItems)
        /\ \A i \in FailedRoots :
              \E e \in 1..Len(response.errors) :
                  response.errors[e].path = <<doc.fields[i].name>>

(* C5, as claimed: a createOrder whose item list is empty issues no backend *)
(* call.                                                                    *)
C5_EmptyItemsNoCall ==
    \A i \in DOMAIN task :
        (doc.fields[i].name = "createOrder" /\ doc.fields[i].n = 0) => FieldCalls(i) = 0

(* C6: a createOrder that has started has issued exactly one call of its    *)
(* own, a POST to the order service, whatever the outcome (failure,         *)
(* timeout, rejection); every other call of the field is a catalog GET of   *)
(* a selected OrderItem.product; nothing goes to another service.           *)
C6_ExactlyOnePost ==
    \A i \in DOMAIN task :
        doc.fields[i].name = "createOrder" =>
            /\ SumCalls({c \in DOMAIN calls :
                            c.field = i /\ c.resolver = "Mutation.create_order"})
                  = IF task[i].pc = "wait" THEN 0 ELSE 1
            /\ \A c \in DOMAIN calls :
                  c.field = i =>
                     \/ /\ c.resolver = "Mutation.create_order"
                        /\ c.svc = "order"
                        /\ c.method = "POST"
                        /\ c.timeout = WriteTimeout
                     \/ /\ c.resolver = "OrderItem.product"
                        /\ c.svc = "catalog"
                        /\ c.method = "GET"
                        /\ doc.fields[i].selProduct

C6_Witness ==
    /\ phase = "done"
    /\ \E i, j \in DOMAIN task :
          /\ doc.fields[i].name = "createOrder"
          /\ task[i].cause = "timeout"
          /\ task[j].cause = "unavailable"
          /\ FieldCalls(i) = 1
          /\ FieldCalls(j) = 1

(* C7, as claimed: when a createOrder has returned null, the store of the   *)
(* order service holds no order created by that invocation.                 *)
C7_NoPartialApply ==
    \A i \in DOMAIN task :
        (doc.fields[i].name = "createOrder" /\ task[i].pc = "done" /\ task[i].value = Null) =>
            \A k \in DOMAIN origin : origin[k] # i

(* The order payloads the resolver of root field i received. *)
Payloads(i) ==
    IF doc.fields[i].name \in {"order", "createOrder"}
    THEN <<task[i].resp.body>>
    ELSE task[i].resp.body.orders

(* C8: every Order the gateway built (in order, userOrders, User.orders and *)
(* createOrder) has the total_amount, status and payment_status of the      *)
(* payload it was built from.                                               *)
C8_ScalarsPassThrough ==
    \A i \in DOMAIN task :
        HasOrders(i) =>
            /\ Len(OrdersOf(task[i].value)) = Len(Payloads(i))
            /\ \A k \in 1..Len(Payloads(i)) :
                  /\ OrdersOf(task[i].value)[k].total_amount = Payloads(i)[k].total_amount
                  /\ OrdersOf(task[i].value)[k].status = Payloads(i)[k].status
                  /\ OrdersOf(task[i].value)[k].payment_status = Payloads(i)[k].payment_status

C8_Witness ==
    /\ phase = "done"
    /\ \E i \in DOMAIN task :
          /\ HasOrders(i)
          /\ doc.fields[i].name = "userOrders"
          /\ \E k \in 1..Len(OrdersOf(task[i].value)) :
                /\ OrdersOf(task[i].value)[k].status = "shipped"
                /\ OrdersOf(task[i].value)[k].payment_status = "pending"
                /\ OrdersOf(task[i].value)[k].total_amount = 13

(* C9: the response lists the root fields in the order of the document,     *)
(* each under its own name and with its own value, whatever the order in    *)
(* which they completed.                                                    *)
C9_DocumentOrder ==
    phase = "done" =>
        /\ Len(response.data) = Len(doc.fields)
        /\ \A k \in 1..Len(response.data) :
              /\ response.data[k].field = k
              /\ response.data[k].key = doc.fields[k].name
              /\ response.data[k].value = task[k].value

C9_Witness ==
    /\ phase = "done"
    /\ doc.kind = "query"
    /\ Len(completed) >= 2
    /\ completed[1] > completed[2]
    /\ doc.fields[1].name # doc.fields[2].name

(* C10, as claimed: in a mutation, root field k+1 starts only when root     *)
(* field k has resolved, and an order that the POST of root field k creates *)
(* is stored before root field k+1 starts.                                  *)
C10_SequentialVisible ==
    [][(phase = "exec" /\ doc.kind = "mutation") =>
          \A k \in DOMAIN task :
              (k + 1 \in DOMAIN task) =>
                  /\ (task[k + 1].pc = "wait" /\ task'[k + 1].pc # "wait") =>
                        task[k].pc = "done"
                  /\ (Len(origin') > Len(origin) /\ origin'[Len(origin')] = k) =>
                        task[k + 1].pc = "wait"]_vars

(* C11: a document that fails parsing or validation (malformed, or naming   *)
(* an unknown root field, also next to a valid one, or an argument the      *)
(* schema does not define) is never executed: no                            *)
(* resolver has been invoked for it, no backend call has been issued, and   *)
(* its response carries an error and no data.                               *)
Invalid(d) ==
    \/ d.kind = "malformed"
    \/ \E k \in DOMAIN d.fields :
          \/ d.fields[k].name = "unknown"
          \/ d.fields[k].name = "createOrder" /\ d.fields[k].pid # ""

C11_State ==
    Invalid(doc) =>
        /\ phase = "rejected"
        /\ task = <<>>
        /\ completed = <<>>
        /\ calls = EmptyBag
        /\ response.data = <<>>
        /\ Len(response.errors) = 1

C11_Step ==
    \A d \in InvalidDocuments : RejectRequest(d) => UNCHANGED backend

C11_RejectedNotExecuted == []C11_State /\ [][C11_Step]_vars

C11_Witness ==
    /\ phase = "rejected"
    /\ doc.kind = "mutation"
    /\ Len(doc.fields) = 2
    /\ doc.fields[1].name = "createOrder"
    /\ doc.fields[1].n > 0
    /\ doc.fields[2].name = "unknown"
    /\ calls = EmptyBag
    /\ Len(orders_db) = 1

(* The value a root field whose own call succeeded is due: what its         *)
(* resolver builds from the response it received.                           *)
FullValue(i) ==
    IF doc.fields[i].name = "user" /\ ~doc.fields[i].selOrders
    THEN Query_user(doc.fields[i].uid)
    ELSE ParentValue(i)

OwnValue(i) ==
    IF doc.fields[i].name = "user" /\ ~doc.fields[i].selOrders
    THEN task[i].value
    ELSE Strip(task[i].value)

C12_State ==
    (phase = "done" /\ doc.kind = "query") =>
        /\ Len(response.data) = Len(doc.fields)
        /\ \A i \in DOMAIN task \ FailedRoots :
              /\ response.data[i].key = doc.fields[i].name
              /\ response.data[i].value = task[i].value
              /\ task[i].value # Null
              /\ OwnValue(i) = FullValue(i)
              /\ (doc.fields[i].name = "user" /\ ~doc.fields[i].selOrders)
                    \/ Succeeded(doc.fields[i], task[i].resp)

C12_Step ==
    \A i \in DOMAIN task :
        (Fail(i) \/ (Answer(i) /\ task'[i].cause = "rejected")) =>
            /\ phase' = "exec"
            /\ \A j \in DOMAIN task \ {i} : task'[j] = task[j]

(* C12: in a query, a root field whose call failed (the backend unreachable *)
(* or rejecting) leaves every sibling root field as it is, the response is  *)
(* emitted with an entry for every root field, and every root field whose   *)
(* own call succeeded is in it with the full value its resolver built.      *)
C12_SiblingsIsolated == []C12_State /\ [][C12_Step]_vars

C12_Witness ==
    /\ phase = "done"
    /\ doc.kind = "query"
    /\ Len(doc.fields) = 2
    /\ task[1].cause = "unavailable"
    /\ doc.fields[2].name = "userOrders"
    /\ task[2].cause = "none"
    /\ Len(response.data[2].value.elems) >= 1
    /\ response.data[1].value = List(<<>>) \/ response.data[1].value = Null

(* The value that stands for "absent": null for the optional fields, the   *)
(* empty list for the list fields.                                          *)
Absent(name) ==
    CASE name \in {"Query.product", "Query.order", "Mutation.create_order",
                   "OrderItem.product"} -> Null
      [] name = "Query.products" -> ProductList(<<>>)
      [] name \in {"Query.user_orders", "User.orders"} -> List(<<>>)

SuccessStatus == 200..299

(* C13: a resolver whose call ended with a non-success status returns the   *)
(* value it returns when the call raised (connection refused, timeout,      *)
(* malformed body): null for product, order, createOrder and                *)
(* OrderItem.product, the empty list for products, userOrders and           *)
(* User.orders.                                                             *)
C13_SameAbsentValue ==
    (doc.kind = "resolver" /\ task[1].pc = "done") =>
        LET name == doc.fields[1].name
            resp == task[1].resp
        IN (resp.exc \/ resp.status \notin SuccessStatus) =>
              /\ task[1].value = Absent(name)
              /\ task[1].value = Apply(name, Raised)

C13_Witness ==
    /\ doc.kind = "resolver"
    /\ task[1].pc = "done"
    /\ doc.fields[1].name = "Query.user_orders"
    /\ ~task[1].resp.exc
    /\ task[1].resp.status = 404
    /\ task[1].resp.body = SampleBody("Query.user_orders")
    /\ task[1].value = List(<<>>)

(* The positions <<order, item>> of the items of a resolved value. *)
ItemPositions(v) ==
    {p \in (1..Len(OrdersOf(v))) \X (1..MaxItems) : p[2] <= Len(OrdersOf(v)[p[1]].items)}

ItemAt(v, p) == OrdersOf(v)[p[1]].items[p[2]]

UserOrdersWithProducts ==
    /\ phase = "done"
    /\ doc.kind = "query"
    /\ doc.fields[1].name = "userOrders"
    /\ doc.fields[1].selProduct
    /\ task[1].cause = "none"

SameProduct(product, item) ==
    /\ product.tag = "Product"
    /\ product.id = item.id
    /\ product.name = item.name
    /\ product.description = item.description
    /\ product.price = item.price
    /\ product.category = item.category
    /\ product.stock = item.stock
    /\ product.image_url = item.image_url

(* C14, as claimed: when a userOrders query that selected items.product     *)
(* ends, the order service having returned its orders and every referenced  *)
(* catalog id being in the catalog, the response holds all these orders,    *)
(* every item with the product the catalog holds, and no error.             *)
C14_AllProductsPopulated ==
    (/\ UserOrdersWithProducts
     /\ \A p \in ItemPositions(task[1].value) :
           ItemAt(task[1].value, p).product_id \in DOMAIN items_db) =>
        /\ response.errors = <<>>
        /\ response.data[1].value = task[1].value
        /\ Len(task[1].value.elems) = Len(task[1].resp.body.orders)
        /\ \A p \in ItemPositions(task[1].value) :
              SameProduct(ItemAt(task[1].value, p).product,
                          items_db[ItemAt(task[1].value, p).product_id])

C14_State ==
    UserOrdersWithProducts =>
        /\ response.errors = <<>>
        /\ response.data[1].value = task[1].value
        /\ Len(task[1].value.elems) = Len(task[1].resp.body.orders)
        /\ \A k \in 1..Len(task[1].value.elems) :
              task[1].value.elems[k].id = task[1].resp.body.orders[k].id
        /\ \A p \in ItemPositions(task[1].value) :
              LET it == ItemAt(task[1].value, p)
              IN /\ it.product # Unresolved
                 /\ it.product # Null =>
                       /\ it.product_id \in DOMAIN items_db
                       /\ SameProduct(it.product, items_db[it.product_id])

C14_Step ==
    \A i \in DOMAIN task :
        (/\ ResolveItemProduct(i, FALSE)
         /\ ItemAt(task[i].value, NextItem(task[i].value)).product_id \in DOMAIN items_db) =>
            SameProduct(ItemAt(task'[i].value, NextItem(task[i].value)).product,
                        items_db[ItemAt(task[i].value, NextItem(task[i].value)).product_id])

(* C14, amended: every catalog lookup of an item whose id is in the catalog *)
(* that is answered gives the item the product the catalog holds, with all  *)
(* its fields; when a userOrders query that selected items.product ends,    *)
(* the response holds all the orders the order service returned, no item is *)
(* left unresolved, every product in it is the catalog's, and there is no   *)
(* error; an item whose lookup failed has product null.                     *)
C14_AnsweredProductsPopulated == []C14_State /\ [][C14_Step]_vars

C14_Witness ==
    /\ UserOrdersWithProducts
    /\ Len(task[1].value.elems) = 2
    /\ \A p \in ItemPositions(task[1].value) :
          ItemAt(task[1].value, p).product.tag = "Product"
    /\ \E p \in ItemPositions(task[1].value) :
          ItemAt(task[1].value, p).product.id = "p2"
    /\ response.errors = <<>>

(* The catalog calls issued for the items of root field i. *)
CatalogCalls(i) ==
    SumCalls({c \in DOMAIN calls : c.field = i /\ c.resolver = "OrderItem.product"})

(* C15: for a root field that selected items.product, the catalog GETs      *)
(* issued are exactly one per item whose product has been resolved, each    *)
(* for the product_id of its own item, also when two items of an order      *)
(* carry the same product_id; when the request ends that is one per item.   *)
C15_OneCallPerItem ==
    \A i \in DOMAIN task :
        (doc.kind = "query" /\ doc.fields[i].selProduct
         /\ doc.fields[i].name \in {"order", "userOrders"}) =>
            LET v == task[i].value
                resolved == ItemPositions(v) \ UnresolvedItems(v)
            IN /\ CatalogCalls(i) = Cardinality(resolved)
               /\ phase = "done" => CatalogCalls(i) = Cardinality(ItemPositions(v))
               /\ \A p \in resolved :
                     \E c \in DOMAIN calls :
                         /\ c.field = i
                         /\ c.item = p
                         /\ c.svc = "catalog"
                         /\ c.method = "GET"
                         /\ c.path = <<"items", ItemAt(v, p).product_id>>
                         /\ calls[c] = 1

C15_Witness ==
    /\ phase = "done"
    /\ doc.fields[1].name = "order"
    /\ task[1].cause = "none"
    /\ Len(task[1].value.items) = 2
    /\ task[1].value.items[1].product_id = task[1].value.items[2].product_id
    /\ CatalogCalls(1) = 2

(* The price and the name a client gave for an item of product p1 or p2. *)
Snapshot(item) ==
    IF item.product_id = "p1"
    THEN item.price = itemA.price /\ item.name = itemA.name
    ELSE item.price = itemB.price /\ item.name = itemB.name

C16_State ==
    /\ \A k \in 1..Len(orders_db) :
          \A m \in 1..Len(orders_db[k].items) : Snapshot(orders_db[k].items[m])
    /\ \A i \in DOMAIN task :
          \A p \in ItemPositions(task[i].value) : Snapshot(ItemAt(task[i].value, p))

C16_Step ==
    \A k \in 1..Len(orders_db) :
        \A k2 \in 1..Len(orders_db') :
            orders_db'[k2].id = orders_db[k].id => orders_db'[k2].items = orders_db[k].items

(* C16: whatever is created, updated or deleted in the catalog, the items   *)
(* of a stored order keep the price and the name they were created with,    *)
(* in the store of the order service and in the orders the gateway returns  *)
(* (order, userOrders), also when the nested product shows another price.   *)
C16_ItemSnapshot == []C16_State /\ [][C16_Step]_vars

C16_Witness ==
    /\ phase = "done"
    /\ doc.fields[1].name = "order"
    /\ task[1].cause = "none"
    /\ task[1].value.items[1].product_id = "p1"
    /\ task[1].value.items[1].price = 5
    /\ task[1].value.items[1].name = "Alpha"
    /\ task[1].value.items[1].product.tag = "Product"
    /\ task[1].value.items[1].product.price = 9
    /\ task[1].value.items[1].product.name = "Gamma"
    /\ "p2" \in DOMAIN items_db

RECURSIVE SumTo(_, _)
SumTo(items, n) ==
    IF n = 0 THEN 0 ELSE items[n].price * items[n].quantity + SumTo(items, n - 1)

(* C17: every order in the store of the order service has a total_amount    *)
(* equal to the sum of price * quantity over its items, after any creation, *)
(* update and deletion of orders.                                           *)
C17_TotalIsSum ==
    \A k \in 1..Len(orders_db) :
        orders_db[k].total_amount = SumTo(orders_db[k].items, Len(orders_db[k].items))

C17_Witness ==
    /\ uuid_ctr = 2
    /\ Len(orders_db) = 1
    /\ orders_db[1].id = 2
    /\ orders_db[1].status = "shipped"
    /\ orders_db[1].total_amount = 20

C18_State ==
    \A i \in DOMAIN task :
        (doc.kind = "mutation" /\ doc.fields[i].name = "createOrder") =>
            /\ (task[i].pc = "served" /\ task[i].resp.status = 201) =>
                  /\ task[i].resp.body.status = "pending"
                  /\ task[i].resp.body.payment_status = "pending"
            /\ (task[i].pc \in {"nested", "done"} /\ task[i].value # Null) =>
                  /\ task[i].resp.status = 201
                  /\ task[i].value.id = task[i].resp.body.id
                  /\ task[i].value.id \in 1..uuid_ctr
                  /\ task[i].value.status = "pending"
                  /\ task[i].value.payment_status = "pending"
                  /\ \A j \in DOMAIN task \ {i} :
                        (task[j].pc \in {"nested", "done"} /\ task[j].value # Null) =>
                            task[j].value.id # task[i].value.id

C18_Step ==
    Len(orders_db') > Len(orders_db) =>
        LET new == orders_db'[Len(orders_db')]
        IN /\ Len(orders_db') = Len(orders_db) + 1
           /\ new.status = "pending"
           /\ new.payment_status = "pending"
           /\ new.id = generate_order_id(uuid_ctr)
           /\ uuid_ctr' = uuid_ctr + 1
           /\ \A k \in 1..Len(orders_db) : orders_db[k].id # new.id
           /\ \A i \in DOMAIN task :
                 Serve(i) => task'[i].resp.status = 201 /\ task'[i].resp.body = new

(* C18: an order the order service stores is new, has an id the order       *)
(* service generated that no stored order has, status pending and           *)
(* payment_status pending, and its creation is answered with 201 and the    *)
(* order; a createOrder that returns an order returns the one of that       *)
(* answer, with this id, pending and pending.                               *)
C18_CreatedPending == []C18_State /\ [][C18_Step]_vars

C18_Witness ==
    /\ phase = "done"
    /\ doc.kind = "mutation"
    /\ Len(doc.fields) = 2
    /\ task[1].value # Null
    /\ task[2].value # Null
    /\ task[2].value.id = 2
    /\ task[2].value.payment_status = "pending"
    /\ \E k \in 1..Len(orders_db) : orders_db[k].id = 2 /\ orders_db[k].payment_status = "paid"

(* C19, as claimed: a createOrder written with a payment method tag is      *)
(* accepted, and the order its POST creates has that payment method.        *)
C19_TagForwarded ==
    \A i \in DOMAIN doc.fields :
        (doc.fields[i].name = "createOrder" /\ doc.fields[i].pid # "") =>
            /\ phase # "rejected"
            /\ \A k \in DOMAIN origin :
                  origin[k] = i => orders_db[k].payment_method = doc.fields[i].pid

StoresChanged ==
    <<orders_db, uuid_ctr, items_db, item_ctr>>' # <<orders_db, uuid_ctr, items_db, item_ctr>>

C20_State ==
    \A c \in DOMAIN calls :
        /\ c.svc \in {"catalog", "order"}
        /\ c.method \in {"GET", "POST"}
        /\ c.method = "POST" =>
              /\ c.resolver = "Mutation.create_order"
              /\ c.svc = "order"
              /\ c.path = <<"orders">>
              /\ calls[c] = 1
        /\ doc.kind = "query" => c.method = "GET"

C20_Step ==
    StoresChanged =>
        \/ \E order_id \in 1..MaxOrders, upd \in Updates : UpdateOrder(order_id, upd)
        \/ /\ (\E i \in DOMAIN task : Serve(i)) \/ (\E k \in DOMAIN late : ServeLate(k))
           /\ doc.kind = "mutation"
           /\ items_db' = items_db
           /\ \A k \in 1..Len(orders_db) : orders_db'[k] = orders_db[k]
           /\ \E c \in DOMAIN calls :
                 c.method = "POST" /\ c.field = origin'[Len(origin')]

(* C20: every call the gateway issues is a GET to the catalog or the order  *)
(* service, or the one POST of a createOrder to the order service; a query  *)
(* issues only GETs; the stores change only when the order service handles  *)
(* such a POST, which adds an order and leaves the stored ones as they are, *)
(* or when another client updates an order.                                 *)
C20_GatewayReadOnly == []C20_State /\ [][C20_Step]_vars

C20_Witness ==
    /\ phase = "done"
    /\ doc.kind = "query"
    /\ Len(doc.fields) = 2
    /\ doc.fields[1].name = "userOrders"
    /\ doc.fields[2].name = "products"
    /\ CatalogCalls(1) >= 4
    /\ Len(orders_db) = 2

-----------------------------------------------------------------------------
(* Cancellation.  The server cancels the task of a request in execution     *)
(* (client gone, shutdown).  asyncio raises CancelledError at the await of  *)
(* every resolver that waits for a call; `except Exception` does not catch  *)
(* it, and `async with httpx.AsyncClient()` closes the client on the way    *)
(* out, which abandons the call.  No resolver spawns a task of its own, so  *)
(* nothing of the request keeps running.  A POST that already left stays on *)
(* its way to the order service.                                            *)

InProgress == {"called", "served", "nested"}

Ended == {"done", "cancelled"}

(* The POSTs of the request that have left the gateway and are not yet      *)
(* handled, in field order.                                                 *)
Abandoned ==
    LET idx == SelectSeq([i \in DOMAIN task |-> i],
                         LAMBDA i : /\ task[i].pc = "called"
                                    /\ doc.fields[i].name = "createOrder")
    IN [k \in DOMAIN idx |->
           [body |-> create_order_body(doc.fields[idx[k]]), field |-> idx[k]]]

(* Mutant: the request ends and its resolvers are left running. *)
Cancel_detached ==
    /\ phase = "exec"
    /\ phase' = "cancelled"
    /\ UNCHANGED <<backend, doc, task, completed, calls, errors, response>>

Cancel ==
    /\ phase = "exec"
    /\ phase' = "cancelled"
    /\ task' = [i \in DOMAIN task |->
                   IF task[i].pc \in InProgress
                   THEN [task[i] EXCEPT !.pc = "cancelled"]
                   ELSE task[i]]
    /\ late' = late \o Abandoned
    /\ UNCHANGED <<orders_db, uuid_ctr, n_updates, items_db, item_ctr, origin, doc,
                   completed, calls, errors, response>>

(* Requests of one or two root fields, enough for every resolver to be      *)
(* interrupted in every position.                                           *)
SmallDocuments ==
    {[kind |-> "query", fields |-> <<f>>] : f \in QueryFields}
    \cup {[kind |-> "mutation", fields |-> <<f>>] : f \in MutationFields}
    \cup {[kind |-> "query",
           fields |-> <<Field("order", "", "", 1, 0, FALSE, TRUE),
                        Field("product", "", "p1", 0, 0, FALSE, FALSE)>>],
          [kind |-> "mutation",
           fields |-> <<Field("createOrder", "u1", "", 0, MaxItems, FALSE, FALSE),
                        Field("createOrder", "u1", "", 0, MaxItems, FALSE, TRUE)>>]}

NextSmall ==
    \/ \E d \in SmallDocuments : StartRequest(d)
    \/ \E i \in 1..MaxFields : StartField(i)
    \/ \E i \in 1..MaxFields : Answer(i)
    \/ \E i \in 1..MaxFields : Fail(i)
    \/ \E i \in 1..MaxFields : Serve(i)
    \/ \E i \in 1..MaxFields : Receive(i)
    \/ \E i \in 1..MaxFields : Timeout(i)
    \/ \E k \in 1..MaxOrders : ServeLate(k)
    \/ \E i \in 1..MaxFields, failed \in BOOLEAN : ResolveItemProduct(i, failed)
    \/ Assemble
    \/ NextRequest
    \/ \E order_id \in 1..MaxOrders, upd \in Updates : UpdateOrder(order_id, upd)

NextCancel == NextSmall \/ Cancel

SpecCancel == Init /\ [][NextCancel]_vars

(* C21: once a request has ended, by its response or by cancellation, no    *)
(* resolver of it is still running or waiting for a backend call (every     *)
(* call it had outstanding is abandoned), and until the next request        *)
(* arrives the gateway issues no further call and runs no resolver on its   *)
(* behalf.                                                                  *)
C21_State ==
    phase \in Ended => \A i \in DOMAIN task : task[i].pc \notin InProgress

C21_Step ==
    (phase \in Ended /\ phase' # "idle") =>
        /\ calls' = calls
        /\ task' = task
        /\ response' = response

C21_NoCallOutlivesRequest == []C21_State /\ [][C21_Step]_vars

(* A request was cancelled while one resolver waited for its POST and       *)
(* another request while item products were being resolved.                 *)
C21_Witness ==
    /\ phase = "cancelled"
    /\ \E i \in DOMAIN task :
           /\ task[i].pc = "cancelled"
           /\ FieldCalls(i) >= 1
           /\ \/ doc.fields[i].name = "createOrder" /\ late # <<>>
              \/ /\ OrdersOf(task[i].value) # <<>>
                 /\ UnresolvedItems(task[i].value) # {}
                 /\ CatalogCalls(i) >= 1

-----------------------------------------------------------------------------
(* Progress.  The event loop runs every resolver that can run, and every    *)
(* call carries a timeout, so a call that is not answered ends by its       *)
(* timeout: client.get by Fail or by the failed lookup of an item's         *)
(* product, client.post by Timeout.  No backend is assumed to answer:       *)
(* Answer, Serve, Receive and the answered lookup are not under fairness.   *)

Deadline ==
    \/ \E i \in 1..MaxFields : StartField(i)
    \/ \E i \in 1..MaxFields : Fail(i)
    \/ \E i \in 1..MaxFields : Timeout(i)
    \/ \E i \in 1..MaxFields : ResolveItemProduct(i, TRUE)
    \/ Assemble

SpecLive == Init /\ [][NextSmall]_vars /\ WF_vars(Deadline)

(* C22: every call the gateway issues carries its timeout, 5 s for a GET    *)
(* and 10 s for a POST, and every request in execution eventually emits     *)
(* its response, each root field and each selected product resolved or     *)
(* failed, also when no backend ever answers.                               *)
C22_State ==
    /\ \A c \in DOMAIN calls :
           c.timeout = IF c.method = "GET" THEN ReadTimeout ELSE WriteTimeout
    /\ phase = "done" =>
           /\ Len(response.data) = Len(doc.fields)
           /\ \A i \in DOMAIN task :
                  /\ task[i].pc = "done"
                  /\ WantsProduct(doc.fields[i]) =>
                         UnresolvedItems(task[i].value) = {}

C22_Live == (phase = "exec") ~> (phase = "done")

C22_TimeoutsEndRequests == []C22_State /\ C22_Live

(* A request ended although its POST was never answered and a product       *)
(* lookup of another request failed.                                        *)
C22_Witness ==
    /\ phase = "done"
    /\ \E i \in DOMAIN task :
           /\ task[i].cause = "timeout"
           /\ \E c \in DOMAIN calls : c.field = i /\ c.timeout = WriteTimeout

-----------------------------------------------------------------------------
(* Concurrent requests.  GraphQLRouter serves every request in a task of    *)
(* its own on one event loop, so the resolvers of two requests interleave   *)
(* at every await.  Two requests of one root field each are in flight       *)
(* together: doc.fields[i] is the root field of request i, task[i] its      *)
(* resolver, and response.data collects the responses in the order they     *)
(* are emitted.                                                             *)

ConcurrentFields ==
    {Field("product", "", pid, 0, 0, FALSE, FALSE) : pid \in ProductIds}
    \cup {Field("order", "", "", 1, 0, FALSE, TRUE),
          Field("userOrders", "u1", "", 0, 0, FALSE, FALSE),
          Field("user", "u1", "", 0, 0, TRUE, FALSE)}
    \cup {Field("createOrder", "u1", "", 0, MaxItems, FALSE, sp) : sp \in BOOLEAN}

ConcurrentDocuments ==
    {[kind |-> "concurrent", fields |-> <<a, b>>] : a, b \in ConcurrentFields}

Responded == {response.data[k].field : k \in DOMAIN response.data}

StartConcurrent(d) ==
    /\ phase = "idle"
    /\ uuid_ctr + Len(late)
         + Cardinality({i \in DOMAIN d.fields : d.fields[i].name = "createOrder"})
         <= MaxOrders
    /\ phase' = "exec"
    /\ doc' = d
    /\ task' = [i \in DOMAIN d.fields |-> InitTask]
    /\ UNCHANGED <<backend, completed, calls, errors, response>>

(* Request i emits its response; the requests are over when each has. *)
Respond(i) ==
    /\ phase = "exec"
    /\ doc.kind = "concurrent"
    /\ i \in DOMAIN task
    /\ task[i].pc = "done"
    /\ i \notin Responded
    /\ response' = [response EXCEPT !.data =
                       Append(@, [field |-> i, key |-> doc.fields[i].name,
                                  value |-> task[i].value])]
    /\ phase' = IF Responded \cup {i} = DOMAIN task THEN "done" ELSE "exec"
    /\ UNCHANGED <<backend, doc, task, completed, calls, errors>>

NextConcurrent ==
    \/ \E d \in ConcurrentDocuments : StartConcurrent(d)
    \/ \E i \in 1..MaxFields : StartField(i)
    \/ \E i \in 1..MaxFields : Answer(i)
    \/ \E i \in 1..MaxFields : Fail(i)
    \/ \E i \in 1..MaxFields : Serve(i)
    \/ \E i \in 1..MaxFields : Receive(i)
    \/ \E i \in 1..MaxFields : Timeout(i)
    \/ \E k \in 1..MaxOrders : ServeLate(k)
    \/ \E i \in 1..MaxFields, failed \in BOOLEAN : ResolveItemProduct(i, failed)
    \/ \E i \in 1..MaxFields : Respond(i)
    \/ NextRequest
    \/ \E order_id \in 1..MaxOrders, upd \in Updates : UpdateOrder(order_id, upd)

SpecConcurrent == Init /\ [][NextConcurrent]_vars

(* What the resolver of root field f builds from the response resp of its   *)
(* own call, nested products aside.                                         *)
ExpectedValue(f, resp) ==
    IF f.name = "user"
    THEN [Query_user(f.uid) EXCEPT !.orders = IF f.selOrders THEN User_orders(resp) ELSE @]
    ELSE Apply(RootResolver(f), resp)

(* C23: with two requests in flight in any interleaving, each response is   *)
(* what the request's own resolvers build from its own document and the     *)
(* responses of its own calls; a step of one request leaves the resolver    *)
(* state and the emitted response of the other untouched; and between       *)
(* requests the gateway holds nothing.                                      *)
C23_State ==
    /\ phase = "idle" =>
           /\ doc = NoDoc /\ task = <<>> /\ completed = <<>>
           /\ calls = EmptyBag /\ errors = <<>> /\ response = NoResponse
    /\ \A k \in DOMAIN response.data :
           LET i == response.data[k].field
               v == response.data[k].value
               os == OrdersOf(v)
           IN /\ OwnValue(i) = ExpectedValue(doc.fields[i], task[i].resp)
              /\ v = task[i].value
              /\ \A p \in ItemPositions(v) :
                     ItemAt(v, p).product \in {Null, Unresolved}
                         \/ ItemAt(v, p).product.id = ItemAt(v, p).product_id

C23_Step ==
    (phase = "exec" /\ phase' = "exec") =>
        /\ \A i, j \in DOMAIN task :
               (i # j /\ task'[i] # task[i]) => task'[j] = task[j]
        /\ \A k \in DOMAIN response.data : response'.data[k] = response.data[k]

C23_NoCrossRequestState == []C23_State /\ [][C23_Step]_vars

(* Two requests ran together, one for a product the catalog has and one    *)
(* for a product it has not; the first completed first, and the second      *)
(* still got the absent value of its own 404.                               *)
C23_Witness ==
    /\ doc.kind = "concurrent"
    /\ phase = "done"
    /\ doc.fields[1].name = "product" /\ doc.fields[1].pid = "p1"
    /\ doc.fields[2].name = "product" /\ doc.fields[2].pid = "p2"
    /\ completed = <<1, 2>>
    /\ response.data[1].field = 2
    /\ task[1].value # Null
    /\ task[2].value = Null /\ task[2].resp.status = 404

-----------------------------------------------------------------------------
(* Entity adapters under incomplete payloads (SpecResolvers) *)

SingleEntity == {"Query.product", "OrderItem.product", "Query.order",
                 "Mutation.create_order"}

IsProduct(name) == name \in {"Query.product", "OrderItem.product"}

(* The call of the resolver succeeded and its body is an entity payload. *)
GotEntity ==
    /\ doc.kind = "resolver"
    /\ task[1].pc = "done"
    /\ doc.fields[1].name \in SingleEntity
    /\ ~task[1].resp.exc
    /\ task[1].resp.status = (IF doc.fields[1].name = "Mutation.create_order"
                              THEN 201 ELSE 200)
    /\ "id" \in DOMAIN task[1].resp.body

EntityOK(name, body) == IF IsProduct(name) THEN ProductOK(body) ELSE OrderOK(body)

(* C24: a payload that lacks only optional keys builds the entity, with     *)
(* those fields absent and every other field as sent; a payload that lacks  *)
(* a required key gives a field-resolution error, never a silent absent     *)
(* value.                                                                   *)
C24_Tolerant ==
    GotEntity =>
        LET name == doc.fields[1].name
            body == task[1].resp.body
            v == task[1].value
        IN EntityOK(name, body) =>
              /\ v # Null
              /\ v.id = body.id
              /\ v.created_at = body.created_at /\ v.updated_at = body.updated_at
              /\ IF IsProduct(name)
                 THEN /\ v.name = body.name /\ v.price = body.price
                      /\ v.category = body.category
                      /\ "description" \notin DOMAIN body => v.description = None
                      /\ "image_url" \notin DOMAIN body => v.image_url = None
                 ELSE /\ v.user_id = body.user_id /\ v.total_amount = body.total_amount
                      /\ v.status = body.status /\ v.payment_status = body.payment_status
                      /\ v.payment_method = body.payment_method
                      /\ "tracking_number" \notin DOMAIN body => v.tracking_number = None
                      /\ "notes" \notin DOMAIN body => v.notes = None

C24_Strict ==
    GotEntity =>
        (~EntityOK(doc.fields[1].name, task[1].resp.body) => errors # <<>>)

C24_AdaptersTolerantAndStrict == C24_Tolerant /\ C24_Strict

-----------------------------------------------------------------------------
(* The item as the client submitted it. *)
Submitted(item) ==
    [product_id |-> item.product_id, quantity |-> item.quantity,
     price |-> item.price, name |-> item.name]

SubmittedItems(items) == [m \in 1..Len(items) |-> Submitted(items[m])]

(* C25: the items of every order the gateway returns, from createOrder,     *)
(* order, userOrders or User.orders, are the items the client submitted     *)
(* when the order was created, in the same order and of the same length;    *)
(* the order service stores them as submitted and never changes them.       *)
C25_State ==
    /\ \A k \in 1..Len(orders_db) : orders_db[k].items = ItemList(MaxItems)
    /\ \A i \in DOMAIN task :
           task[i].pc \in {"nested", "done"} =>
               \A n \in 1..Len(OrdersOf(task[i].value)) :
                   SubmittedItems(OrdersOf(task[i].value)[n].items) = ItemList(MaxItems)

C25_Step ==
    /\ Len(orders_db') > Len(orders_db) =>
           LET new == orders_db'[Len(orders_db')]
               f == doc.fields[origin'[Len(origin')]]
           IN new.items = create_order_body(f).items
    /\ \A k \in 1..Len(orders_db) :
           \A n \in 1..Len(orders_db') :
               orders_db'[n].id = orders_db[k].id => orders_db'[n].items = orders_db[k].items

C25_ItemsOrderPreserved == []C25_State /\ [][C25_Step]_vars

(* createOrder returned its order, and a later request read the stored      *)
(* order through userOrders and through User.orders, each with the two      *)
(* items as submitted.                                                      *)
C25_Witness ==
    /\ phase = "done"
    /\ Len(doc.fields) = 2
    /\ doc.fields[1].name = "userOrders" /\ doc.fields[2].name = "user"
    /\ Len(OrdersOf(task[1].value)) = 2
    /\ Len(OrdersOf(task[2].value)) = 2
    /\ SubmittedItems(OrdersOf(task[1].value)[2].items) = <<itemA, itemB>>
    /\ itemA # itemB

-----------------------------------------------------------------------------
(* The handlers of the backends as functions of the store and the request.  *)
(* Init draws a store and a request; the action of the handler applies it   *)
(* and keeps its response in task[1].resp, and for a gateway field the      *)
(* value its resolver builds in task[1].value.                              *)

MaxStored == 3      \* orders of a drawn store

RECURSIVE StoreOf(_)
StoreOf(us) ==
    IF us = <<>> THEN <<>>
    ELSE create_order(StoreOf(SubSeq(us, 1, Len(us) - 1)), Len(us) - 1,
                      [user_id |-> us[Len(us)], items |-> ItemList(MaxItems),
                       shipping_address |-> Address, payment_method |-> "card"],
                      Len(us)).db

(* n + 1 orders, all but the first of user u1. *)
BigStore(n) ==
    [k \in 1..(n + 1) |->
        [SampleOrder EXCEPT !.id = k, !.user_id = IF k = 1 THEN "u2" ELSE "u1"]]

OrderStores ==
    LET plain == {StoreOf(us) : us \in SeqsUpTo(Users, MaxStored) \cup {<<>>}}
    IN plain
       \cup {update_order(s, 1, [status |-> "shipped"], MaxStored + 1).db :
                s \in plain \ {<<>>}}
       \cup {BigStore(UserOrdersLimit + 1), BigStore(UserFieldLimit + 1)}

Limits == {MinLimit - 1, MinLimit, MinLimit + 1, UserOrdersLimit, UserFieldLimit,
           MaxLimit, MaxLimit + 1}

UserOrdersRequests ==
    {[name |-> "get_user_orders", uid |-> u, status |-> st, n |-> n] :
        u \in Users, st \in {None, "pending", "shipped"}, n \in Limits}
    \cup {Field("userOrders", u, "", 0, 0, FALSE, FALSE) : u \in Users}
    \cup {Field("user", u, "", 0, 0, TRUE, FALSE) : u \in Users}

(* Catalog stores: any of three items, which differ in category, price,    *)
(* name and description.                                                    *)
catalogP3 == [catalogP1 EXCEPT !.id = "p3", !.name = "Gamma", !.description = "meta",
                               !.price = 9, !.created_at = 2, !.updated_at = 2]

CatalogItems == ("p1" :> catalogP1) @@ ("p2" :> [catalogP2 EXCEPT !.category = "food"])
                    @@ ("p3" :> catalogP3)

CatalogStores == {[id \in S |-> CatalogItems[id]] : S \in SUBSET DOMAIN CatalogItems}

(* A query parameter the client sends with one of the values V, or not. *)
Opt(key, V) == {<<>>} \cup {(key :> v) : v \in V}

ItemsParams ==
    {c @@ lo @@ hi @@ s @@ pg @@ sz :
        c \in Opt("category", {"books", "toys"}),
        lo \in Opt("min_price", {5}),
        hi \in Opt("max_price", {7}),
        s \in Opt("search", {"", "al", "ETA", "zz"}),
        pg \in Opt("page", {MinPage - 1, MinPage, MinPage + 1, MinPage + 2, MinPage + 3}),
        sz \in Opt("page_size", {MinPageSize - 1, MinPageSize, MinPageSize + 1,
                                 MaxPageSize, MaxPageSize + 1})}

(* Shipping addresses a client may have stored: any of the three keys the   *)
(* gateway formats, with or without a key it does not.                      *)
Addresses ==
    {[k \in S |-> (Address @@ ("zip" :> "LV-1050"))[k]] :
        S \in SUBSET {"street", "city", "country", "zip"}}

(* Mutant: a missing key is formatted as Python formats None. *)
Order_address_none(order) ==
    LET addr == order.shipping_address
    IN <<Get(addr, "street", None), ", ", Get(addr, "city", None), ", ",
         Get(addr, "country", None)>>

(* Order.address: the f-string, as the sequence of its parts. *)
Order_address(order) ==
    LET addr == order.shipping_address
    IN <<Get(addr, "street", ""), ", ", Get(addr, "city", ""), ", ",
         Get(addr, "country", "")>>

(* The fields of the Order type in the schema: shipping_address is          *)
(* strawberry.Private, address is the derived field.                        *)
OrderFields == {"id", "user_id", "items", "total_amount", "status", "payment_status",
                "payment_method", "tracking_number", "notes", "created_at",
                "updated_at", "address"}

(* The object the response holds for an Order with every field selected. *)
Serialize(order) ==
    [k \in OrderFields |-> IF k = "address" THEN Order_address(order) ELSE order[k]]

(* Stores for updates: one order in any status and payment status, or two  *)
(* orders; update bodies with each field unset, null or set.                *)
UpdateStores ==
    {<<[SampleOrder EXCEPT !.status = st, !.payment_status = ps]>> :
        st \in OrderStatus, ps \in PaymentStatus}
    \cup {<<SampleOrder, SampleOrder2>>}

UpdateBodies ==
    {st @@ ps @@ tn @@ nt :
        st \in Opt("status", OrderStatus \cup {None, "lost"}),
        ps \in Opt("payment_status", PaymentStatus \cup {None}),
        tn \in Opt("tracking_number", {None, "TRK1"}),
        nt \in Opt("notes", {None})}

UpdateTime == MaxStored + 2

HandlerTask(pc, value, resp) == <<[pc |-> pc, value |-> value, resp |-> resp, cause |-> "none"]>>

InitHandlers ==
    /\ uuid_ctr = 0
    /\ n_updates = 0
    /\ item_ctr = 1
    /\ origin = <<>>
    /\ late = <<>>
    /\ phase = "exec"
    /\ completed = <<>>
    /\ calls = EmptyBag
    /\ errors = <<>>
    /\ response = NoResponse
    /\ task = HandlerTask("called", Null, NoResp)
    /\ \/ /\ items_db = ("p1" :> catalogP1)
          /\ orders_db \in OrderStores
          /\ \E r \in UserOrdersRequests : doc = [kind |-> "handler", fields |-> <<r>>]
       \/ /\ orders_db = <<>>
          /\ items_db \in CatalogStores
          /\ \E ps \in ItemsParams :
                doc = [kind |-> "handler", fields |-> <<[name |-> "get_items", params |-> ps]>>]
       \/ /\ items_db = ("p1" :> catalogP1)
          /\ orders_db \in UpdateStores
          /\ \E order_id \in 1..MaxStored, upd \in UpdateBodies :
                doc = [kind |-> "handler",
                       fields |-> <<[name |-> "update_order", order_id |-> order_id,
                                     upd |-> upd, now |-> UpdateTime]>>]
       \/ /\ items_db = ("p1" :> catalogP1)
          /\ \E a \in Addresses :
                /\ orders_db = <<[SampleOrder EXCEPT !.shipping_address = a]>>
                /\ doc = [kind |-> "handler",
                          fields |-> <<Field("order", "", "", 1, 0, FALSE, FALSE)>>]

(* GET /api/v1/orders/user/{user_id}, called directly or by Query.user_orders *)
(* (limit 50) or User.orders (limit 100).                                     *)
GetUserOrders ==
    /\ doc.kind = "handler"
    /\ task[1].pc = "called"
    /\ doc.fields[1].name \in {"get_user_orders", "userOrders", "user"}
    /\ LET f == doc.fields[1]
           direct == f.name = "get_user_orders"
           resp == IF direct THEN get_user_orders(orders_db, f.uid, f.status, f.n)
                   ELSE Backend(f)
           value == IF direct THEN Null
                    ELSE Resolve(f, IF f.name = "user" THEN Query_user(f.uid) ELSE Null,
                                 Resp(resp))
       IN task' = HandlerTask("done", value, Resp(resp))
    /\ UNCHANGED <<backend, phase, doc, completed, calls, errors, response>>

(* GET /api/v1/catalog/items *)
GetItems ==
    /\ doc.kind = "handler"
    /\ task[1].pc = "called"
    /\ doc.fields[1].name = "get_items"
    /\ task' = HandlerTask("done", Null, Resp(get_items(items_db, doc.fields[1].params)))
    /\ UNCHANGED <<backend, phase, doc, completed, calls, errors, response>>

(* order(id) with every field of Order selected: Query.order builds the    *)
(* Order and the response holds its exposed fields.                         *)
GetOrder ==
    /\ doc.kind = "handler"
    /\ task[1].pc = "called"
    /\ doc.fields[1].name = "order"
    /\ LET f == doc.fields[1]
           resp == Resp(Backend(f))
           value == Resolve(f, Null, resp)
       IN /\ task' = HandlerTask("done", value, resp)
          /\ response' = [data |-> <<[field |-> 1, key |-> f.name,
                                      value |-> IF value = Null THEN Null
                                                ELSE Serialize(value)]>>,
                          errors |-> <<>>]
    /\ UNCHANGED <<backend, phase, doc, completed, calls, errors>>

(* PUT /api/v1/orders/{order_id} *)
PutOrder ==
    /\ doc.kind = "handler"
    /\ task[1].pc = "called"
    /\ doc.fields[1].name = "update_order"
    /\ LET f == doc.fields[1]
           r == update_order(orders_db, f.order_id, f.upd, f.now)
       IN /\ orders_db' = r.db
          /\ task' = HandlerTask("done", Null, Resp(r))
    /\ UNCHANGED <<uuid_ctr, n_updates, items_db, item_ctr, origin, late, phase, doc,
                   completed, calls, errors, response>>

NextHandlers ==
    \/ GetUserOrders
    \/ GetItems
    \/ GetOrder
    \/ PutOrder

SpecHandlers == InitHandlers /\ [][NextHandlers]_vars

HandlerDone(names) ==
    doc.kind = "handler" /\ task[1].pc = "done" /\ doc.fields[1].name \in names

(* C26: GET /orders/user/{user_id}?limit returns only orders of that user,  *)
(* at most limit of them, the first ones in store order, and total counts   *)
(* all matching orders before the limit; so userOrders returns at most 50   *)
(* orders and User.orders at most 100, each of the requested user.          *)
C26_UserOrdersLimited ==
    HandlerDone({"get_user_orders", "userOrders", "user"}) =>
        LET f == doc.fields[1]
            resp == task[1].resp
            limit == CASE f.name = "get_user_orders" -> f.n
                       [] f.name = "userOrders" -> UserOrdersLimit
                       [] f.name = "user" -> UserFieldLimit
            status == IF f.name = "get_user_orders" THEN f.status ELSE None
            matching == {k \in 1..Len(orders_db) :
                            /\ orders_db[k].user_id = f.uid
                            /\ status # None => orders_db[k].status = status}
            got == OrdersOf(task[1].value)
        IN /\ resp.status = 200 <=> limit \in MinLimit..MaxLimit
           /\ resp.status = 200 =>
                 /\ \A k \in 1..Len(resp.body.orders) : resp.body.orders[k].user_id = f.uid
                 /\ Len(resp.body.orders) <= limit
                 /\ Len(resp.body.orders) = Min(limit, Cardinality(matching))
                 /\ \A k \in 1..Len(resp.body.orders) :
                        \E j \in matching :
                            /\ resp.body.orders[k] = orders_db[j]
                            /\ Cardinality({i \in matching : i <= j}) = k
                 /\ resp.body.total = Cardinality(matching)
           /\ f.name = "userOrders" =>
                 Len(got) <= UserOrdersLimit /\ \A k \in 1..Len(got) : got[k].user_id = f.uid
           /\ f.name = "user" =>
                 Len(got) <= UserFieldLimit /\ \A k \in 1..Len(got) : got[k].user_id = f.uid

(* userOrders of a user with one order more than the limit of 50: fifty    *)
(* orders come back and total counts them all.                              *)
C26_Witness ==
    /\ HandlerDone({"userOrders"})
    /\ Len(orders_db) = UserOrdersLimit + 2
    /\ doc.fields[1].uid = "u1"
    /\ task[1].resp.body.total = UserOrdersLimit + 1
    /\ Len(OrdersOf(task[1].value)) = UserOrdersLimit

-----------------------------------------------------------------------------
(* The item passes every filter of the request. *)
Passes(item, params) ==
    /\ "category" \in DOMAIN params => item.category = params.category
    /\ "min_price" \in DOMAIN params => params.min_price <= item.price
    /\ "max_price" \in DOMAIN params => item.price <= params.max_price
    /\ ("search" \in DOMAIN params /\ params.search # "") =>
          LET text == lower(Chars(params.search))
          IN \/ Contains(text, lower(Chars(item.name)))
             \/ /\ item.description # None
                /\ Contains(text, lower(Chars(item.description)))

(* The items of page q of the same request. *)
PageItems(params, q) == get_items(items_db, ("page" :> q) @@ params).body.items

(* C27: for every store and every accepted request, total is the number of *)
(* stored items that pass all filters, total_pages is ceil(total /          *)
(* page_size), the pages 1..total_pages hold every filtered item exactly    *)
(* once and nothing else, and every page beyond total_pages is empty.       *)
C27_PaginationCorrect ==
    (HandlerDone({"get_items"}) /\ task[1].resp.status = 200) =>
        LET params == doc.fields[1].params
            body == task[1].resp.body
            size == body.page_size
            F == {id \in DOMAIN items_db : Passes(items_db[id], params)}
            pages == 1..body.total_pages
        IN /\ body.total = Cardinality(F)
           /\ body.total_pages * size >= body.total
           /\ body.total_pages > 0 => (body.total_pages - 1) * size < body.total
           /\ body.total_pages >= 0
           /\ body.items = PageItems(params, body.page)
           /\ \A id \in F :
                  Cardinality({qk \in pages \X (1..size) :
                                  /\ qk[2] <= Len(PageItems(params, qk[1]))
                                  /\ PageItems(params, qk[1])[qk[2]] = items_db[id]}) = 1
           /\ \A q \in pages :
                  /\ Len(PageItems(params, q)) <= size
                  /\ \A k \in 1..Len(PageItems(params, q)) :
                         PageItems(params, q)[k].id \in F
           /\ \A q \in (body.total_pages + 1)..(body.total_pages + 2) :
                  PageItems(params, q) = <<>>

(* Three items in pages of two: page 2 of 2 holds the third; and a search   *)
(* in capitals finds an item by its description only.                       *)
C27_Witness ==
    /\ HandlerDone({"get_items"})
    /\ task[1].resp.status = 200
    /\ Cardinality(DOMAIN items_db) = 3
    /\ LET params == doc.fields[1].params
           body == task[1].resp.body
       IN \/ /\ DOMAIN params = {"page", "page_size"}
             /\ params.page = 2 /\ params.page_size = 2
             /\ body.total = 3 /\ body.total_pages = 2
             /\ Len(body.items) = 1 /\ body.items[1].id = "p3"
          \/ /\ DOMAIN params = {"search"}
             /\ params.search = "ETA"
             /\ body.total = 2
             /\ body.items[2].id = "p3"

-----------------------------------------------------------------------------
(* C28: the object the response holds for an Order has no shipping_address  *)
(* field: its fields are those of the stored order without                  *)
(* shipping_address, each with the stored value, and address, which is      *)
(* street, city and country of the stored mapping joined by ", ", with the  *)
(* empty string for each key the mapping lacks.                             *)
C28_AddressDerivedOnly ==
    (HandlerDone({"order"}) /\ task[1].value # Null) =>
        LET stored == orders_db[1].shipping_address
            out == response.data[1].value
            part(k) == IF k \in DOMAIN stored THEN stored[k] ELSE ""
        IN /\ "shipping_address" \notin DOMAIN out
           /\ DOMAIN out = (DOMAIN orders_db[1] \ {"shipping_address"}) \cup {"address"}
           /\ out.address = <<part("street"), ", ", part("city"), ", ", part("country")>>
           /\ \A k \in DOMAIN out \ {"address", "items"} : out[k] = orders_db[1][k]
           /\ SubmittedItems(out.items) = orders_db[1].items

(* An order whose address has a street and a postcode only. *)
C28_Witness ==
    /\ HandlerDone({"order"})
    /\ DOMAIN orders_db[1].shipping_address = {"street", "zip"}
    /\ response.data[1].value.address = <<"Main 1", ", ", "", ", ", "">>

-----------------------------------------------------------------------------
Updatable == {"status", "payment_status", "tracking_number", "notes"}

(* C29: update_order sets exactly the fields among status, payment_status,  *)
(* tracking_number and notes that the body supplies with a non-null value,  *)
(* each to the supplied value whatever the stored one was, and updated_at;  *)
(* every other field of the order and every other order stay as they were;  *)
(* for an unknown id it answers 404 and the store is unchanged.             *)
C29_Step ==
    (doc.kind = "handler" /\ doc.fields[1].name = "update_order"
        /\ task[1].pc = "called" /\ task'[1].pc = "done") =>
        LET f == doc.fields[1]
            upd == f.upd
            r == task'[1].resp
            known == \E k \in 1..Len(orders_db) : orders_db[k].id = f.order_id
        IN IF ~OrderUpdateValid(upd) THEN r.status = 422 /\ orders_db' = orders_db
           ELSE IF ~known THEN r.status = 404 /\ orders_db' = orders_db
           ELSE /\ r.status = 200
                /\ Len(orders_db') = Len(orders_db)
                /\ \A k \in 1..Len(orders_db) :
                       LET old == orders_db[k]
                           new == orders_db'[k]
                       IN IF old.id # f.order_id THEN new = old
                          ELSE /\ DOMAIN new = DOMAIN old
                               /\ \A fld \in Updatable :
                                      new[fld] = IF fld \in DOMAIN upd /\ upd[fld] # None
                                                 THEN upd[fld] ELSE old[fld]
                               /\ new.updated_at = f.now
                               /\ \A fld \in DOMAIN old \ (Updatable \cup {"updated_at"}) :
                                      new[fld] = old[fld]
                               /\ r.body = new

C29_UpdateFrame == [][C29_Step]_vars

(* An order whose payment had failed was set to pending with a tracking    *)
(* number and a null note: status and tracking number are the supplied      *)
(* ones, payment status and note are the stored ones.                       *)
C29_Witness ==
    /\ HandlerDone({"update_order"})
    /\ task[1].resp.status = 200
    /\ doc.fields[1].upd = [status |-> "pending", tracking_number |-> "TRK1", notes |-> None]
    /\ orders_db[1].status = "pending"
    /\ orders_db[1].payment_status = "failed"
    /\ orders_db[1].tracking_number = "TRK1"
    /\ orders_db[1].notes = None
    /\ orders_db[1].updated_at = UpdateTime /\ orders_db[1].created_at < UpdateTime

-----------------------------------------------------------------------------
ListResolvers == {"Query.user_orders", "User.orders", "Query.products"}

(* The list of the backend response the resolver iterates over. *)
BackendList(name, body) ==
    IF name = "Query.products" THEN Get(body, "items", <<>>) ELSE Get(body, "orders", <<>>)

WellFormed(name, e) == IF name = "Query.products" THEN ProductOK(e) ELSE OrderOK(e)

(* C30: userOrders, User.orders and products return either one entity per  *)
(* element of the backend list, in the backend's order, or the empty list;  *)
(* when the call succeeded they return the complete list if every element   *)
(* is well formed and the empty list if any element lacks a required key.   *)
C30_AllOrNothing ==
    (doc.kind = "resolver" /\ task[1].pc = "done" /\ doc.fields[1].name \in ListResolvers) =>
        LET name == doc.fields[1].name
            resp == task[1].resp
            got == task[1].value.elems
            sent == BackendList(name, resp.body)
            complete == /\ Len(got) = Len(sent)
                        /\ \A k \in 1..Len(got) :
                               /\ got[k].tag = (IF name = "Query.products"
                                                THEN "Product" ELSE "Order")
                               /\ got[k].id = sent[k].id
                               /\ got[k].created_at = sent[k].created_at
        IN /\ got = <<>> \/ complete
           /\ (~resp.exc /\ resp.status = 200) =>
                 IF \A k \in 1..Len(sent) : WellFormed(name, sent[k])
                 THEN complete
                 ELSE got = <<>>

(* userOrders got two orders of which the second lacks a required key and   *)
(* returned the empty list.                                                  *)
C30_Witness ==
    /\ doc.kind = "resolver"
    /\ task[1].pc = "done"
    /\ doc.fields[1].name = "Query.user_orders"
    /\ ~task[1].resp.exc /\ task[1].resp.status = 200
    /\ Len(task[1].resp.body.orders) = 2
    /\ OrderOK(task[1].resp.body.orders[1])
    /\ ~OrderOK(task[1].resp.body.orders[2])
    /\ task[1].value = List(<<>>)

-----------------------------------------------------------------------------
(* Order ids as the order service draws them                                 *)
(*                                                                           *)
(* generate_order_id() returns "ORD-" followed by the first 8 hex digits of  *)
(* uuid.uuid4(): a random choice among 16^8 values, made without looking at  *)
(* the ids orders_db already holds.  Here the id space is 1..MaxOrders, so   *)
(* that a repeated draw is reached within a few creations.                   *)

Uuid4Hex8 == 1..MaxOrders

(* orders_db[order_id] = new_order: a dict assignment, which replaces the    *)
(* value of a key the dict already holds and appends a new key otherwise.    *)
store_order(db, new_order) ==
    IF \E k \in 1..Len(db) : db[k].id = new_order.id
    THEN [k \in 1..Len(db) |-> IF db[k].id = new_order.id THEN new_order ELSE db[k]]
    ELSE Append(db, new_order)

(* POST /api/v1/orders when generate_order_id() returned order_id. *)
create_order_drawn(db, order_id, body, now) ==
    LET r == create_order(<<>>, 0, body, now)
    IN IF r.status # 201
       THEN [status |-> r.status, body |-> NoBody, db |-> db]
       ELSE LET new_order == [r.body EXCEPT !.id = order_id]
            IN [status |-> 201, body |-> new_order, db |-> store_order(db, new_order)]

(* A client posts an order; uuid_ctr counts the ids drawn so far. *)
PostOrder(body, order_id) ==
    /\ uuid_ctr < MaxStored
    /\ LET r == create_order_drawn(orders_db, order_id, body, get_current_time)
       IN /\ orders_db' = r.db
          /\ response' = [status |-> r.status, body |-> r.body]
    /\ uuid_ctr' = uuid_ctr + 1
    /\ UNCHANGED <<n_updates, items_db, item_ctr, origin, late, phase, doc, task, completed,
                   calls, errors>>

(* A client reads an order (GET /api/v1/orders/{order_id}). *)
ReadOrder(order_id) ==
    /\ response' = get_order(orders_db, order_id)
    /\ UNCHANGED <<orders_db, uuid_ctr, n_updates, items_db, item_ctr, origin, late, phase,
                   doc, task, completed, calls, errors>>

NextIds ==
    \/ \E body \in OrderBodies, order_id \in Uuid4Hex8 : PostOrder(body, order_id)
    \/ \E order_id \in Uuid4Hex8 : ReadOrder(order_id)
    \/ \E order_id \in Uuid4Hex8 : DeleteOrder(order_id)
    \/ \E order_id \in Uuid4Hex8, upd \in Updates : UpdateOrder(order_id, upd)

SpecIds == Init /\ [][NextIds]_vars

StoredIds(db) == {db[k].id : k \in 1..Len(db)}

Created == uuid_ctr' = uuid_ctr + 1 /\ response'.status = 201

C31_Step ==
    Created =>
        /\ Len(orders_db') = Len(orders_db) + 1
        /\ response'.body.id \notin StoredIds(orders_db)
        /\ \A order_id \in StoredIds(orders_db) :
              get_order(orders_db', order_id) = get_order(orders_db, order_id)
        /\ get_order(orders_db', response'.body.id) = [status |-> 200, body |-> response'.body]

(* C31: every successful POST /orders adds exactly one order to the store,   *)
(* under an id the store did not hold before, and leaves every order stored  *)
(* before retrievable with the same content.                                 *)
C31_CreationsAddFreshOrders == [][C31_Step]_vars

-----------------------------------------------------------------------------
(* products(category, min_price, max_price, search, limit) against a catalog *)
(* of up to three items: limits at and around the bounds of page_size, the   *)
(* default, a category of the catalog and an unknown one.                    *)

ProductsLimits ==
    {MinPageSize - 2, MinPageSize - 1, MinPageSize, MinPageSize + 1, ProductsLimit,
     MaxPageSize, MaxPageSize + 1}

ProductsRequests ==
    {Field("products", "", cat, 0, n, FALSE, FALSE) @@ lo @@ hi @@ s :
        cat \in {None, "books", "toys"},
        n \in ProductsLimits,
        lo \in Opt("min_price", {5}),
        hi \in Opt("max_price", {7}),
        s \in Opt("search", {"al", "zz"})}

InitProducts ==
    /\ uuid_ctr = 0
    /\ n_updates = 0
    /\ item_ctr = 1
    /\ origin = <<>>
    /\ late = <<>>
    /\ phase = "exec"
    /\ completed = <<>>
    /\ calls = EmptyBag
    /\ errors = <<>>
    /\ response = NoResponse
    /\ task = HandlerTask("called", Null, NoResp)
    /\ orders_db = <<>>
    /\ items_db \in CatalogStores
    /\ \E f \in ProductsRequests : doc = [kind |-> "handler", fields |-> <<f>>]

(* Query.products sends its GET. *)
CallProducts ==
    /\ doc.kind = "handler"
    /\ task[1].pc = "called"
    /\ calls' = calls (+) SeqToBag(RootCalls(doc.fields[1], 1))
    /\ task' = [task EXCEPT ![1].pc = "sent"]
    /\ UNCHANGED <<backend, phase, doc, completed, errors, response>>

(* The catalog answers and Query.products returns. *)
GetProducts ==
    /\ doc.kind = "handler"
    /\ task[1].pc = "sent"
    /\ LET f == doc.fields[1]
           resp == Resp(Backend(f))
       IN task' = HandlerTask("done", Resolve(f, Null, resp), resp)
    /\ UNCHANGED <<backend, phase, doc, completed, calls, errors, response>>

NextProducts ==
    \/ CallProducts
    \/ GetProducts

SpecProducts == InitProducts /\ [][NextProducts]_vars

(* The stored items that pass the filters the field gives. *)
Filtered(f) == {id \in DOMAIN items_db : Passes(items_db[id], ProductsFilters(f))}

(* C32: products(limit) sends one GET for page 1 with page_size = limit; it  *)
(* returns at most limit products, each a stored item that passes the given  *)
(* filters, and as many as pass up to the limit; for a limit outside 1..100  *)
(* and for a category that is not a catalog category the catalog answers     *)
(* 422 and the field is the empty list.                                      *)
C32_ProductsLimited ==
    /\ (doc.kind = "handler" /\ task[1].pc \in {"sent", "done"}) =>
          LET f == doc.fields[1]
          IN \E c \in DOMAIN calls :
                /\ calls = SetToBag({c})
                /\ c.svc = "catalog" /\ c.method = "GET"
                /\ SubSeq(c.path, 1, 5) = <<"items", "page", "1", "page_size", ToString(f.n)>>
    /\ HandlerDone({"products"}) =>
          LET f == doc.fields[1]
              got == task[1].value.elems
              rejected == \/ f.n \notin MinPageSize..MaxPageSize
                          \/ (f.pid # None /\ f.pid \notin Category)
          IN /\ task[1].value.tag = "products"
             /\ rejected <=> task[1].resp.status = 422
             /\ rejected => got = <<>>
             /\ ~rejected =>
                   /\ Len(got) = Min(f.n, Cardinality(Filtered(f)))
                   /\ \A k \in 1..Len(got) :
                         /\ got[k].id \in Filtered(f)
                         /\ got[k] = BuildProduct(items_db[got[k].id])
                         /\ \A j \in 1..Len(got) : got[j].id = got[k].id => j = k

(* Three stored items, no filter and limit 101: the catalog answers 422 and *)
(* the field is the empty list although three items would pass.             *)
C32_Witness ==
    /\ HandlerDone({"products"})
    /\ LET f == doc.fields[1]
       IN /\ f.n = MaxPageSize + 1
          /\ f.pid = None
          /\ Cardinality(Filtered(f)) = Cardinality(DOMAIN CatalogItems)
          /\ task[1].resp.status = 422
          /\ task[1].value = ProductList(<<>>)

-----------------------------------------------------------------------------
(* Payment service                                                           *)
(*                                                                           *)
(* Each handler chooses a payment gateway inside a try block whose           *)
(* `except Exception` turns whatever was raised into HTTPException(500).     *)
(* The Stripe gateway calls the Stripe API, which answers or raises; the     *)
(* YooMoney gateway computes its answers locally.                            *)

PaymentMethod == {"card", "yoomoney", "sbp", "apple_pay", "google_pay"}

(* PaymentCreate validation (pydantic): amount > 0, payment_method in the enum. *)
PaymentCreateValid(payment_data) ==
    payment_data.amount > 0 /\ payment_data.payment_method \in PaymentMethod

(* The gateway create_payment selects, None for the else branch. *)
CreateGateway(payment_method) ==
    CASE payment_method \in {"card", "apple_pay", "google_pay"} -> "stripe"
      [] payment_method = "yoomoney" -> "yoomoney"
      [] OTHER -> None

(* The gateway get_payment_status selects. *)
StatusGateway(gateway) == IF gateway \in {"stripe", "yoomoney"} THEN gateway ELSE None

(* The gateway refund_payment calls: a YooMoney refund is answered by the    *)
(* handler itself.                                                           *)
RefundGateway(gateway) == IF gateway = "stripe" THEN "stripe" ELSE None

(* The gateway a request makes the handler call, None when it calls none. *)
GatewayCalled(r) ==
    CASE r.name = "create_payment" ->
            IF PaymentCreateValid(r.payment_data)
            THEN CreateGateway(r.payment_data.payment_method) ELSE None
      [] r.name = "get_payment_status" -> StatusGateway(r.gateway)
      [] r.name = "refund_payment" -> RefundGateway(r.gateway)

(* What the try block of a handler leaves: a value, or an exception raised   *)
(* by the gateway (result.exc) or by the else branch (HTTPException 400).    *)
Tried(selected, result, value) ==
    IF selected = None
    THEN [raised |-> TRUE, exc |-> [type |-> "HTTPException", status_code |-> 400]]
    ELSE IF result.exc
         THEN [raised |-> TRUE, exc |-> [type |-> "Exception", status_code |-> 0]]
         ELSE [raised |-> FALSE, value |-> value]

(* Mutant: an HTTPException raised in the try block is re-raised as it is. *)
Handled_reraise(tried) ==
    IF tried.raised
    THEN [status |-> IF tried.exc.type = "HTTPException" THEN tried.exc.status_code ELSE 500,
          body |-> NoBody]
    ELSE [status |-> 200, body |-> tried.value]

(* except Exception as e: raise HTTPException(status_code=500, detail=str(e)) *)
Handled(tried) ==
    IF tried.raised
    THEN [status |-> 500, body |-> NoBody]
    ELSE [status |-> 200, body |-> tried.value]

(* POST /create, given what the selected gateway did. *)
create_payment(payment_data, result) ==
    IF ~PaymentCreateValid(payment_data)
    THEN [status |-> 422, body |-> NoBody]
    ELSE LET gateway == CreateGateway(payment_data.payment_method)
         IN Handled(Tried(gateway, result,
                          [success |-> TRUE, gateway |-> gateway,
                           payment_data |-> result.body,
                           order_id |-> payment_data.order_id]))

(* GET /{payment_id}/status *)
get_payment_status(payment_id, gateway, result) ==
    Handled(Tried(StatusGateway(gateway), result, [success |-> TRUE, status |-> result.body]))

(* POST /{payment_id}/refund *)
refund_payment(payment_id, amount, gateway, result) ==
    Handled(Tried(IF gateway \in {"stripe", "yoomoney"} THEN gateway ELSE None,
                  result,
                  [success |-> TRUE,
                   refund |-> IF gateway = "stripe" THEN result.body
                              ELSE [status |-> "refund_initiated"]]))

(* What a gateway method does: it returns, or (Stripe only) raises. *)
GatewayResults(gateway) ==
    {[exc |-> FALSE, body |-> [status |-> "pending"]]}
    \cup (IF gateway = "stripe" THEN {[exc |-> TRUE, body |-> NoBody]} ELSE {})

(* The result a handler sees when it calls no gateway. *)
NoResult == [exc |-> FALSE, body |-> NoBody]

PaymentRequests ==
    {[name |-> "create_payment",
      payment_data |-> [order_id |-> oid, user_id |-> "u1", amount |-> a, currency |-> cur,
                        payment_method |-> m]] :
        oid \in 1..MaxOrders, a \in {0, 10}, cur \in {"RUB", "USD"},
        m \in PaymentMethod \cup {"cash"}}
    \cup {[name |-> "get_payment_status", payment_id |-> id, gateway |-> g] :
            id \in {"pi_1", "pi_2"}, g \in {"stripe", "yoomoney", "paypal", ""}}
    \cup {[name |-> "refund_payment", payment_id |-> id, amount |-> a, gateway |-> g] :
            id \in {"pi_1", "pi_2"}, a \in {0, 10}, g \in {"stripe", "yoomoney", "paypal", ""}}

PaymentResponse(r, result) ==
    CASE r.name = "create_payment" -> create_payment(r.payment_data, result)
      [] r.name = "get_payment_status" -> get_payment_status(r.payment_id, r.gateway, result)
      [] r.name = "refund_payment" -> refund_payment(r.payment_id, r.amount, r.gateway, result)

InitPayments ==
    /\ orders_db = <<>>
    /\ uuid_ctr = 0
    /\ n_updates = 0
    /\ items_db = ("p1" :> catalogP1)
    /\ item_ctr = 1
    /\ origin = <<>>
    /\ late = <<>>
    /\ phase = "exec"
    /\ completed = <<>>
    /\ calls = EmptyBag
    /\ errors = <<>>
    /\ response = NoResponse
    /\ task = HandlerTask("called", Null, NoResp)
    /\ \E r \in PaymentRequests : doc = [kind |-> "payment", fields |-> <<r>>]

(* The handler runs up to its await of a gateway method. *)
CallGateway ==
    /\ doc.kind = "payment"
    /\ task[1].pc = "called"
    /\ GatewayCalled(doc.fields[1]) # None
    /\ calls' = calls (+) SetToBag({[svc |-> GatewayCalled(doc.fields[1]),
                                     method |-> doc.fields[1].name]})
    /\ task' = [task EXCEPT ![1].pc = "sent"]
    /\ UNCHANGED <<backend, phase, doc, completed, errors, response>>

(* The gateway method returns or raises and the handler answers. *)
GatewayReturns ==
    /\ doc.kind = "payment"
    /\ task[1].pc = "sent"
    /\ \E result \in GatewayResults(GatewayCalled(doc.fields[1])) :
          task' = HandlerTask("done", Null, Resp(PaymentResponse(doc.fields[1], result)))
    /\ UNCHANGED <<backend, phase, doc, completed, calls, errors, response>>

(* The handler answers without calling a gateway. *)
AnswerDirectly ==
    /\ doc.kind = "payment"
    /\ task[1].pc = "called"
    /\ GatewayCalled(doc.fields[1]) = None
    /\ task' = HandlerTask("done", Null, Resp(PaymentResponse(doc.fields[1], NoResult)))
    /\ UNCHANGED <<backend, phase, doc, completed, calls, errors, response>>

NextPayments ==
    \/ CallGateway
    \/ GatewayReturns
    \/ AnswerDirectly

SpecPayments == InitPayments /\ [][NextPayments]_vars

(* A valid /create with a method no branch handles, or a gateway name that  *)
(* is neither stripe nor yoomoney.                                           *)
Unsupported(r) ==
    CASE r.name = "create_payment" ->
            /\ PaymentCreateValid(r.payment_data)
            /\ r.payment_data.payment_method \notin {"card", "apple_pay", "google_pay",
                                                     "yoomoney"}
      [] OTHER -> r.gateway \notin {"stripe", "yoomoney"}

PaymentDone == doc.kind = "payment" /\ task[1].pc = "done"

(* The half of C33 the code keeps: an unsupported method or gateway name    *)
(* reaches no payment gateway.                                              *)
C33_NoGatewayCalled ==
    (doc.kind = "payment" /\ Unsupported(doc.fields[1])) => calls = EmptyBag

(* C33: an unsupported payment method on /create and an unknown gateway     *)
(* name on /{payment_id}/status and /{payment_id}/refund are answered with  *)
(* status 400, and no payment gateway is called.                            *)
C33_UnsupportedRejected400 ==
    (PaymentDone /\ Unsupported(doc.fields[1])) =>
        /\ task[1].resp.status = 400
        /\ calls = EmptyBag

=============================================================================
